---- MODULE Spec2Model ----
(***************************************************************************)
(* A model of the GitHub scanner for ioBroker adapter repositories        *)
(* (iobroker-bot-orga/watch-github).  The main specification follows the  *)
(* year-partitioned scanner of src/unnamed/part_000: one process per run  *)
(* (main -> constructor -> scanForIoBrokerRepositories), the ledger file  *)
(* ioBrokerRepositories.json persisting between runs.  Every action is    *)
(* the code that runs between two suspension points (await) of the        *)
(* script.                                                                 *)
(***************************************************************************)
EXTENDS Integers, Sequences, FiniteSets, TLC

(***************************************************************************)
(* Bounds of the model.                                                    *)
(***************************************************************************)
\* the calendar year the scanner processes run in
MaxYear == 2014
\* the latest calendar year the planner is run in
MaxPlanYear == 2016
\* full pages the search service serves for one query
MaxServedPages == 10
\* number of scanner processes run one after the other on the same file
MaxRuns == 2
\* events of the platform in one behaviour, other than the plain answers
\* (an empty page, a found manifest, a lookup without surprises): a
\* strategy that is served full pages, a non-empty short page, a limit
\* error, a failed or negative auxiliary request, a lookup answer whose
\* parent summary is itself a fork with a nested parent
MaxEvents == 2

(***************************************************************************)
(* Program constants.                                                      *)
(***************************************************************************)
startYear == 2014
perPage == 100
maxPages == 10
resultLimit == 1000
prefixLength == 9

\* JavaScript null for a full name (no full name is the empty string)
NullName == <<>>
\* lastUpdated: null (the clock of the model starts at 1)
NoTime == 0
\* exit status of a process: none while it runs, 0 when main() resolves,
\* 1 from process.exit(1) when main() rejects
ExitNone == "none"
ExitOk == "0"
ExitFailure == "1"

(***************************************************************************)
(* Strings.  A JavaScript string is modelled as the tuple of its          *)
(* characters, so that toLowerCase, startsWith, split and substring are   *)
(* computed, not assumed.                                                  *)
(***************************************************************************)
LowerOf(c) ==
    CASE c = "B" -> "b"
      [] c = "I" -> "i"
      [] c = "O" -> "o"
      [] c = "R" -> "r"
      [] c = "K" -> "k"
      [] c = "E" -> "e"
      [] c = "T" -> "t"
      [] c = "S" -> "s"
      [] c = "U" -> "u"
      [] c = "F" -> "f"
      [] c = "H" -> "h"
      [] c = "A" -> "a"
      [] c = "D" -> "d"
      [] c = "P" -> "p"
      [] c = "N" -> "n"
      [] c = "G" -> "g"
      [] OTHER -> c

toLowerCase(s) == [i \in 1..Len(s) |-> LowerOf(s[i])]

startsWith(s, p) == Len(s) >= Len(p) /\ SubSeq(s, 1, Len(p)) = p

\* s.includes(p)
includes(s, p) == \E k \in 0..(Len(s) - Len(p)) : SubSeq(s, k + 1, k + Len(p)) = p

\* s.substring(n): the characters from 0-based index n on
substring(s, n) == SubSeq(s, n + 1, Len(s))

\* index of the first "/" of s, 0 when there is none
RECURSIVE SlashAt(_, _)
SlashAt(s, i) ==
    IF i > Len(s) THEN 0
    ELSE IF s[i] = "/" THEN i
    ELSE SlashAt(s, i + 1)

\* fullName.split('/')[1] || ''   (full names hold at most one "/")
AfterSlash(s) ==
    IF SlashAt(s, 1) = 0 THEN <<>> ELSE SubSeq(s, SlashAt(s, 1) + 1, Len(s))

IobrokerDot == <<"i", "o", "b", "r", "o", "k", "e", "r", ".">>

extractAdapterName(fullName) ==
    LET repoName == AfterSlash(fullName)
    IN  IF startsWith(toLowerCase(repoName), IobrokerDot)
        THEN substring(repoName, prefixLength)
        ELSE repoName

\* a check that looks for the pattern anywhere in the name
NameIncludesPattern(repoName) ==
    LET name == toLowerCase(repoName)
    IN  \E k \in 0..Len(name) :
            /\ Len(name) >= k + prefixLength
            /\ SubSeq(name, k + 1, k + prefixLength) = IobrokerDot

matchesIoBrokerPattern(repoName) ==
    LET name == toLowerCase(repoName)
    IN  startsWith(name, IobrokerDot) /\ Len(name) > prefixLength

(***************************************************************************)
(* Calendar.  A date is <<year, month, day>>; an instant of local time is *)
(* counted in minutes from the start of its year.                          *)
(***************************************************************************)
IsLeap(y) == (y % 4 = 0 /\ y % 100 # 0) \/ y % 400 = 0

DaysInMonth(y, m) ==
    IF m = 2 THEN (IF IsLeap(y) THEN 29 ELSE 28)
    ELSE IF m \in {4, 6, 9, 11} THEN 30
    ELSE 31

\* days of year y before the first day of the month with 0-based index mi
RECURSIVE DaysBefore(_, _)
DaysBefore(y, mi) == IF mi = 0 THEN 0 ELSE DaysBefore(y, mi - 1) + DaysInMonth(y, mi)

\* the date of the n-th day (1-based) of year y
RECURSIVE DateOfDay(_, _, _)
DateOfDay(y, n, m) ==
    IF n <= DaysInMonth(y, m) \/ m = 12 THEN <<y, m, n>>
    ELSE DateOfDay(y, n - DaysInMonth(y, m), m + 1)

MinutesPerDay == 24 * 60

\* new Date(year, monthIndex, day): local midnight of that day, the day
\* counted from the first of the month with 0-based index monthIndex
\* (day 0 is the last day of the month before)
LocalMidnight(y, monthIndex, day) == (DaysBefore(y, monthIndex) + day - 1) * MinutesPerDay

\* floor(a / b) for b > 0 and any integer a
FloorDiv(a, b) == IF a >= 0 THEN a \div b ELSE -((-a + b - 1) \div b)

\* date.toISOString().split('T')[0]: the UTC calendar date of a local
\* instant, for a zone whose local time is UTC + tz minutes
IsoDate(y, localMinutes, tz) ==
    DateOfDay(y, FloorDiv(localMinutes - tz, MinutesPerDay) + 1, 1)

DateLE(a, b) ==
    \/ a[1] < b[1]
    \/ a[1] = b[1] /\ a[2] < b[2]
    \/ a[1] = b[1] /\ a[2] = b[2] /\ a[3] <= b[3]

\* every calendar date of year y
DatesOf(y) == {dt \in {y} \X (1..12) \X (1..31) : dt[3] <= DaysInMonth(y, dt[2])}

(***************************************************************************)
(* The platform, seen through its API.  A raw repository record is        *)
(* referred to by an identifier; RawRecord gives the fields the scanner   *)
(* reads.  The search service is a black box: it answers a page request   *)
(* with a page of records or with an error.                                *)
(***************************************************************************)
Str_ioBroker_test == <<"i", "o", "B", "r", "o", "k", "e", "r", ".", "t", "e", "s", "t">>
Str_myiobroker_foo == <<"m", "y", "i", "o", "b", "r", "o", "k", "e", "r", ".", "f", "o", "o">>
Str_o == <<"o">>
Str_u == <<"u">>

FullName(owner, name) == owner \o <<"/">> \o name

RecordIds == {"r1", "r2", "rf"}

\* a description: null or a string
NullDescription == [isNull |-> TRUE, text |-> <<>>]

Description(text) == [isNull |-> FALSE, text |-> text]

\* the topics member of a record: absent or an array of strings
NoTopics == [present |-> FALSE, list |-> <<>>]

Topics(list) == [present |-> TRUE, list |-> list]

\* repo.description || ''
DescriptionOrEmpty(description) == IF description.isNull THEN <<>> ELSE description.text

\* repo.topics || []
TopicsOrEmpty(topics) == IF topics.present THEN topics.list ELSE <<>>

\* the fields of a raw record the scanners read

RawRecord(id) ==
    CASE id = "r1" -> [name |-> Str_ioBroker_test, owner |-> Str_o,
                       full_name |-> FullName(Str_o, Str_ioBroker_test),
                       fork |-> FALSE, archived |-> FALSE,
                       description |-> NullDescription, topics |-> NoTopics]
      [] id = "r2" -> [name |-> Str_ioBroker_test, owner |-> Str_u,
                       full_name |-> FullName(Str_u, Str_ioBroker_test),
                       fork |-> TRUE, archived |-> TRUE,
                       description |-> NullDescription, topics |-> NoTopics]
      [] id = "rf" -> [name |-> Str_myiobroker_foo, owner |-> Str_o,
                       full_name |-> FullName(Str_o, Str_myiobroker_foo),
                       fork |-> FALSE, archived |-> FALSE,
                       description |-> NullDescription, topics |-> NoTopics]

\* a page of perPage records
FullPage == [i \in 1..perPage |-> "rf"]

\* the pages of fewer than perPage records the service may answer with
ShortPages == {<<>>, <<"r1">>, <<"rf", "r2", "r1">>}

NoError == [status |-> 0, message |-> ""]
LimitError == [status |-> 422, message |-> "Only the first 1000 search results are available"]
OtherErrors == {[status |-> 403, message |-> "API rate limit exceeded"],
                [status |-> 422, message |-> "Validation Failed"]}

\* a catch that looks at the status alone
IsStatus422(error) == error.status = 422

\* error.status === 422 && error.message.includes('Only the first 1000 ...')
IsLimitError(error) ==
    error.status = 422 /\ error.message = "Only the first 1000 search results are available"

\* offsets of local time from UTC, in minutes, the process may run under
TzOffsets == {-60, 0, 60}

(***************************************************************************)
(* Query planner.                                                          *)
(***************************************************************************)
baseQuery == "iobroker in:name"
additionalQualifiers == ""

searchConfigurations ==
    << [forkQualifier |-> "fork:false", archivedQualifier |-> "archived:false",
        description |-> "non-archived non-forked"],
       [forkQualifier |-> "fork:true", archivedQualifier |-> "archived:false",
        description |-> "non-archived forked"],
       [forkQualifier |-> "fork:true", archivedQualifier |-> "archived:true",
        description |-> "archived forked"] >>

\* the strategy pushed for one year and one configuration; the query string
\* is kept as the record of its qualifiers
YearStrategy(year, config) ==
    [query |-> [base |-> baseQuery, fork |-> config.forkQualifier,
                archived |-> config.archivedQualifier,
                createdFrom |-> <<year, 1, 1>>, createdTo |-> <<year, 12, 31>>,
                extra |-> additionalQualifiers],
     description |-> <<config.description, year, 0>>,
     year |-> year,
     month |-> 0,
     forkQualifier |-> config.forkQualifier,
     archivedState |-> config.archivedQualifier,
     isMonthly |-> FALSE]

\* a planner that starts at the floor year and counts up
StrategiesOldestFirst(thisYear) ==
    LET nc == Len(searchConfigurations)
        n  == IF thisYear >= startYear THEN (thisYear - startYear + 1) * nc ELSE 0
    IN  [i \in 1..n |->
            YearStrategy(startYear + ((i - 1) \div nc), searchConfigurations[((i - 1) % nc) + 1])]

\* years from thisYear down to startYear, each crossed with the
\* configurations in their order
getSearchStrategies(thisYear) ==
    LET nc == Len(searchConfigurations)
        n  == IF thisYear >= startYear THEN (thisYear - startYear + 1) * nc ELSE 0
    IN  [i \in 1..n |->
            YearStrategy(thisYear - ((i - 1) \div nc), searchConfigurations[((i - 1) % nc) + 1])]

\* new Date(year, month, 0).toISOString().split('T')[0]
MonthEndDate(year, month, tz) == IsoDate(year, LocalMidnight(year, month, 0), tz)

\* a monthly strategy built with the fallback qualifiers
MonthStrategyDefaults(ys, m, tz) ==
    [query |-> [base |-> baseQuery, fork |-> "fork:true",
                archived |-> "archived:false",
                createdFrom |-> <<ys.year, m, 1>>,
                createdTo |-> MonthEndDate(ys.year, m, tz),
                extra |-> additionalQualifiers],
     description |-> <<"Repositories created in", ys.year, m, "fork:true", "archived:false">>,
     year |-> ys.year,
     month |-> m,
     forkQualifier |-> "fork:true",
     archivedState |-> "archived:false",
     isMonthly |-> TRUE]

\* the monthly strategy searchYearByMonths builds for one month
MonthStrategy(ys, m, tz) ==
    [query |-> [base |-> baseQuery, fork |-> ys.forkQualifier,
                archived |-> ys.archivedState,
                createdFrom |-> <<ys.year, m, 1>>,
                createdTo |-> MonthEndDate(ys.year, m, tz),
                extra |-> additionalQualifiers],
     description |-> <<"Repositories created in", ys.year, m, ys.forkQualifier, ys.archivedState>>,
     year |-> ys.year,
     month |-> m,
     forkQualifier |-> ys.forkQualifier,
     archivedState |-> ys.archivedState,
     isMonthly |-> TRUE]

\* no strategy: the value of a frame that is not active
NoStrategy ==
    [query |-> [base |-> "", fork |-> "", archived |-> "",
                createdFrom |-> <<0, 0, 0>>, createdTo |-> <<0, 0, 0>>, extra |-> ""],
     description |-> <<"", 0, 0>>,
     year |-> 0,
     month |-> 0,
     forkQualifier |-> "",
     archivedState |-> "",
     isMonthly |-> FALSE]

\* while (hasNextPage && page <= maxPages)
LoopContinues(more, p) == more /\ p <= maxPages

\* hasNextPage = pageRepositories.length === 100
HasNextPage(items) == Len(items) = perPage

\* a test that forgets the isMonthly flag
IsDatedStrategy(s) == s.year # 0

\* if (strategy.year && !strategy.isMonthly): a year strategy is subdivided
IsYearStrategy(s) == s.year # 0 /\ ~s.isMonthly

\* if (repositories.length === 1000 && strategy.year && !strategy.isMonthly)
HitExactLimit(s, repos) == Len(repos) = resultLimit /\ IsYearStrategy(s)

\* what a subdivided year strategy returns: the monthly results alone
YearlyResult(yearPages, monthlyResults) == monthlyResults

(***************************************************************************)
(* Auxiliary documents and lookups.                                        *)
(***************************************************************************)
Str_test == <<"t", "e", "s", "t">>
Str_iobroker_test == <<"i", "o", "b", "r", "o", "k", "e", "r", ".", "t", "e", "s", "t">>
Str_m == <<"m">>

\* a fallback to a copy of the document kept with the scanner
BundledDoc ==
    [set |-> TRUE, content |-> (Str_test :> [metaRepo |-> FullName(Str_o, Str_iobroker_test)])]

\* the {} the loaders fall back to
EmptyDoc == [set |-> TRUE, content |-> <<>>]

\* the null the caches start with
NoDoc == [set |-> FALSE, content |-> <<>>]

\* the content of sources-dist.json / sources-dist-stable.json: adapter name
\* to the owner/repo segment its meta URL holds
SourcesDist ==
    [set |-> TRUE, content |-> (Str_test :> [metaRepo |-> FullName(Str_o, Str_iobroker_test)])]

checkInLatest(adapterName, repoFullName, sources) ==
    IF ~sources.set \/ adapterName \notin DOMAIN sources.content THEN FALSE
    ELSE toLowerCase(sources.content[adapterName].metaRepo) = toLowerCase(repoFullName)

checkInStable(adapterName, repoFullName, sources) ==
    IF ~sources.set \/ adapterName \notin DOMAIN sources.content THEN FALSE
    ELSE toLowerCase(sources.content[adapterName].metaRepo) = toLowerCase(repoFullName)

\* no summary: getRootRepository is at the lookup of the record itself
NoRepo == [full_name |-> NullName, fork |-> FALSE, parent |-> FALSE]

\* the parent summaries a repository lookup may carry: the fork flag and
\* whether a nested parent field is present
ParentSummaries ==
    {[full_name |-> FullName(Str_o, Str_ioBroker_test), fork |-> FALSE, parent |-> FALSE],
     [full_name |-> FullName(Str_m, Str_ioBroker_test), fork |-> TRUE, parent |-> TRUE]}

(***************************************************************************)
(* Ledger.                                                                 *)
(***************************************************************************)
EmptyLedger == [lastUpdated |-> NoTime, totalRepositories |-> 0, repositories |-> <<>>]

\* no ioBrokerRepositories.json on disk
NoFile == [exists |-> FALSE, readable |-> FALSE, complete |-> FALSE, doc |-> EmptyLedger]

\* the JSON text null, parsed
JsonNull == [jsonNull |-> TRUE]

IsJsonNull(value) == DOMAIN value = {"jsonNull"}

\* a JSON object that has no repositories member
ObjectWithoutRepositories == [lastUpdated |-> NoTime, totalRepositories |-> 0]

\* loadExistingRepositories: the parsed file as it is, or the empty ledger
\* when there is no file, or readFileSync throws, or JSON.parse throws on an
\* incomplete text, or parsed.repositories throws on a parsed null
loadExistingRepositories(f) ==
    IF ~f.exists THEN EmptyLedger
    ELSE IF ~f.readable \/ ~f.complete THEN EmptyLedger
    ELSE IF IsJsonNull(f.doc) THEN EmptyLedger
    ELSE f.doc

\* a scan start that leaves the flags as they were loaded
KeepFlags(repos) == repos

\* existingRepoKeys.forEach(key => repositories[key].valid = false)
MarkAllInvalid(repos) == [k \in DOMAIN repos |-> [repos[k] EXCEPT !.valid = FALSE]]

\* a save that drops the invalid entries whatever the flag
CleanAlways(repos, doCleanup) == [k \in {x \in DOMAIN repos : repos[x].valid = TRUE} |-> repos[k]]

\* a save that ignores the flag
CleanNever(repos, doCleanup) == repos

\* the cleanup pass of saveRepositoriesToJson
CleanedRepositories(repos, doCleanup) ==
    IF doCleanup
    THEN [k \in {x \in DOMAIN repos : repos[x].valid = TRUE} |-> repos[k]]
    ELSE repos

\* a document whose total is the number of the repositories found new
LedgerDocumentTotalOfNew(repos, found, strategies, now) ==
    [lastUpdated |-> now,
     totalRepositories |-> Len(found),
     scanSummary |-> [newRepositoriesFound |-> Len(found),
                      searchStrategies |-> [i \in 1..Len(strategies) |-> strategies[i].description],
                      baseSearchQuery |-> baseQuery,
                      additionalQualifiers |-> additionalQualifiers],
     repositories |-> repos]

\* the document saveRepositoriesToJson writes
LedgerDocument(repos, found, strategies, now) ==
    [lastUpdated |-> now,
     totalRepositories |-> Cardinality(DOMAIN repos),
     scanSummary |-> [newRepositoriesFound |-> Len(found),
                      searchStrategies |-> [i \in 1..Len(strategies) |-> strategies[i].description],
                      baseSearchQuery |-> baseQuery,
                      additionalQualifiers |-> additionalQualifiers],
     repositories |-> repos]

(***************************************************************************)
(* Worlds.  In the main specification the platform answers every request  *)
(* as it likes (AnyWorld).  A fixed world is one data set of the platform *)
(* and one configuration of the deployment: every request has the one     *)
(* answer the data set gives, in every run.                                *)
(***************************************************************************)
Str_n == <<"n">>

\* parent links of the fork network of ioBroker.test: none known; u forked
\* from o; u forked from m, itself forked from o; u forked from m, with m
\* and n given as forks of each other
ForkNetworks ==
    LET o == FullName(Str_o, Str_ioBroker_test)
        u == FullName(Str_u, Str_ioBroker_test)
        m == FullName(Str_m, Str_ioBroker_test)
        n == FullName(Str_n, Str_ioBroker_test)
        none == [x \in {o, u, m, n} |-> NullName]
    IN  [none  |-> none,
         root  |-> (u :> o) @@ none,
         chain |-> (u :> m) @@ (m :> o) @@ none,
         cycle |-> (u :> m) @@ (m :> n) @@ (n :> m) @@ none]

\* the repository data of a fixed world: whether lookups fail, whether a
\* parent summary carries a nested parent field, and the parent links
Networks ==
    {[fails |-> TRUE, nested |-> FALSE, parentOf |-> ForkNetworks.none]}
    \cup {[fails |-> FALSE, nested |-> FALSE, parentOf |-> p] :
              p \in {ForkNetworks.none, ForkNetworks.root, ForkNetworks.chain}}
    \cup {[fails |-> FALSE, nested |-> TRUE, parentOf |-> p] :
              p \in {ForkNetworks.chain, ForkNetworks.cycle}}

\* the answer of octokit.rest.repos.get for repository `name` in a network
RepoLookup(net, name) ==
    IF net.fails THEN [kind |-> "error", parent |-> NoRepo]
    ELSE IF net.parentOf[name] = NullName THEN [kind |-> "noParent", parent |-> NoRepo]
    ELSE LET p == net.parentOf[name]
             isFork == net.parentOf[p] # NullName
         IN  [kind |-> "parent",
              parent |-> [full_name |-> p, fork |-> isFork, parent |-> (net.nested /\ isFork)]]

\* the answers a repository lookup may get
RepoAnswers(w, name) ==
    IF w.fixed THEN {RepoLookup(w.network, name)}
    ELSE {[kind |-> "error", parent |-> NoRepo], [kind |-> "noParent", parent |-> NoRepo]}
         \cup {[kind |-> "parent", parent |-> p] : p \in ParentSummaries}

\* the answers of a fixed world to the three year strategies of a year
WorldResults ==
    LET Served(items) == [error |-> NoError, items |-> items]
        Refused(error) == [error |-> error, items |-> <<>>]
    IN  {<<Served(<<"rf", "r1">>), Served(<<>>), Served(<<"r2">>)>>,
         <<Served(<<"r1">>), Served(<<"r1">>), Served(<<"r2">>)>>,
         <<Refused(LimitError), Served(<<>>), Served(<<"r2">>)>>,
         <<Served(<<"r1">>), Served(<<>>), Refused([status |-> 403, message |-> "API rate limit exceeded"])>>,
         <<Served(<<"r1">>), Served(<<>>), Served(<<>>)>>}

\* the answers a page request of strategy s, number i of the scan, may get
SearchAnswers(w, s, i) ==
    IF w.fixed
    THEN IF s.isMonthly
         THEN {[error |-> NoError, items |-> IF s.month = 1 THEN <<"r1">> ELSE <<>>]}
         ELSE {w.results[((i - 1) % Len(searchConfigurations)) + 1]}
    ELSE {[error |-> NoError, items |-> items] : items \in {FullPage} \cup ShortPages}
         \cup {[error |-> error, items |-> <<>>] : error \in {LimitError} \cup OtherErrors}

AnyWorld ==
    [fixed |-> FALSE, results |-> <<>>, probe |-> "ok",
     network |-> [fails |-> FALSE, nested |-> FALSE, parentOf |-> ForkNetworks.none],
     sources |-> [latest |-> TRUE, stable |-> TRUE],
     cleanup |-> FALSE, dryRun |-> FALSE]

\* probe: the answer to every content request for io-package.json;
\* sources: whether the content request for each manifest document succeeds;
\* cleanup: the --cleanup flag of every run; dryRun: DRY_RUN is "true"
Worlds ==
    [fixed : {TRUE}, results : WorldResults, probe : {"ok", "notFound", "error"},
     network : Networks, sources : {[latest |-> TRUE, stable |-> TRUE]},
     cleanup : BOOLEAN, dryRun : BOOLEAN]

\* the fixed worlds, a manifest document failing to load or not
FaultyWorlds ==
    {[w EXCEPT !.sources = s] : w \in Worlds, s \in [latest : BOOLEAN, stable : BOOLEAN]}

(***************************************************************************)
(* State.                                                                  *)
(***************************************************************************)
VARIABLES
    currentYear,          \* new Date().getFullYear() of the runs
    tzOffset,             \* offset of the process's local time from UTC
    world,                \* the platform's data and the deployment's settings
    file,                 \* ioBrokerRepositories.json on disk
    fileAtStart,          \* the file as the running process found it
    run,                  \* processes started so far; the clock of timestamps
    pc,                   \* the suspension point the process waits at
    exitCode,             \* exit status of the last process
    cleanup,              \* the --cleanup flag of the process
    existingRepositories,
    foundRepositories,
    sourcesLatest,
    sourcesStable,
    inflight,             \* requests issued and not yet answered
    existingRepoKeys,
    newRepositoriesFound,
    updatedRepositories,
    searchStrategies,
    si,                   \* index of the strategy of the for loop
    strategyResults,
    ri,                   \* index of the record of the inner for loop
    currentRepo,          \* getRootRepository: the summary walked, or NoRepo
    strategy,             \* searchWithStrategy: the frame being paginated
    repositories,
    page,
    hasNextPage,
    yearStrategy,         \* searchYearByMonths: the subdivided strategy, or NoStrategy
    yearRepositories,     \* the pages the subdivided frame had collected
    month,
    allRepositories,
    events,               \* events of the platform so far
    bigFrame,             \* the frame being paginated was served a full page
    frameLog,             \* the search service's log of the page requests of
                          \* the frame being paginated: page, outcome, records
    servedMonths,         \* every record the service served to the monthly
                          \* strategies of the current subdivision, in order
    lastError,            \* the error the search service last answered the
                          \* running process with, NoError after a page
    passedFilter,         \* full names of the records that passed
                          \* isLikelyIoBrokerAdapter in the scan of the process
    passCount,            \* how often a record passed it in that scan, every
                          \* return of a record counted
    monthStrategies       \* the monthly strategies built so far by a planner run

envVars    == <<currentYear, tzOffset, world>>
diskVars   == <<file, fileAtStart>>
procVars   == <<run, cleanup>>
ledgerVars == <<existingRepositories, foundRepositories, newRepositoriesFound, updatedRepositories,
                passedFilter, passCount>>
srcVars    == <<sourcesLatest, sourcesStable>>
scanVars   == <<existingRepoKeys, searchStrategies>>
loopVars   == <<strategyResults, ri, currentRepo>>
fetchVars  == <<strategy, repositories, page, hasNextPage>>
subVars    == <<yearStrategy, yearRepositories, month, allRepositories>>
budgetVars == <<events, bigFrame>>
logVars    == <<frameLog, servedMonths, lastError>>
planVars   == <<monthStrategies>>

vars == <<envVars, diskVars, procVars, pc, exitCode, ledgerVars, srcVars, inflight,
          scanVars, si, loopVars, fetchVars, subVars, budgetVars, logVars, planVars>>

\* the state before any process has run
InitRest ==
    /\ monthStrategies = <<>>
    /\ fileAtStart = NoFile
    /\ run = 0
    /\ exitCode = ExitNone
    /\ cleanup = FALSE
    /\ existingRepositories = EmptyLedger
    /\ foundRepositories = <<>>
    /\ sourcesLatest = NoDoc
    /\ sourcesStable = NoDoc
    /\ inflight = {}
    /\ existingRepoKeys = {}
    /\ newRepositoriesFound = 0
    /\ updatedRepositories = 0
    /\ searchStrategies = <<>>
    /\ si = 0
    /\ strategyResults = <<>>
    /\ ri = 0
    /\ currentRepo = NoRepo
    /\ strategy = NoStrategy
    /\ repositories = <<>>
    /\ page = 0
    /\ hasNextPage = FALSE
    /\ yearStrategy = NoStrategy
    /\ yearRepositories = <<>>
    /\ month = 0
    /\ allRepositories = <<>>
    /\ events = 0
    /\ bigFrame = FALSE
    /\ frameLog = <<>>
    /\ servedMonths = <<>>
    /\ lastError = NoError
    /\ passedFilter = {}
    /\ passCount = 0

Init ==
    /\ currentYear = MaxYear
    /\ tzOffset \in TzOffsets
    /\ world = AnyWorld
    /\ file = NoFile
    /\ pc = "idle"
    /\ InitRest

(***************************************************************************)
(* The inner loop of scanForIoBrokerRepositories: the records of one      *)
(* strategy, run up to the next request.  A machine m holds the values    *)
(* the loop changes.                                                       *)
(***************************************************************************)
MatchingIds == {id \in RecordIds : matchesIoBrokerPattern(RawRecord(id).name)}

Min(S) == CHOOSE x \in S : \A y \in S : x <= y

\* a probe that takes the file to be there unless the answer is a 404
ProbeUnlessNotFound(answer) == answer # "notFound"

\* hasIoPackageJson: true when the content request succeeds, false on a 404
\* and on any other error
hasIoPackageJson(answer) == answer = "ok"

\* isLikelyIoBrokerAdapter: the entry is already listed with valid === true
AlreadyValid(repos, repo) ==
    repo.full_name \in DOMAIN repos /\ repos[repo.full_name].valid = TRUE

\* the entry written for a matching record
repoData(repo, base, latest, stable, now) ==
    [name |-> repo.name,
     full_name |-> repo.full_name,
     isForked |-> repo.fork,
     isArchived |-> repo.archived,
     base |-> base,
     inLatest |-> checkInLatest(extractAdapterName(repo.full_name), repo.full_name, latest),
     inStable |-> checkInStable(extractAdapterName(repo.full_name), repo.full_name, stable),
     valid |-> TRUE,
     lastScanned |-> now]

\* an upsert keyed by the bare repository name
UpsertByName(m, repo, base) ==
    LET data == repoData(repo, base, sourcesLatest, sourcesStable, run)
        repoKey == repo.name
        isNew == repoKey \notin DOMAIN m.repos
    IN  [m EXCEPT !.repos = (repoKey :> data) @@ m.repos,
                  !.found = IF isNew THEN Append(m.found, repoKey) ELSE m.found,
                  !.newCnt = IF isNew THEN m.newCnt + 1 ELSE m.newCnt,
                  !.updCnt = IF isNew THEN m.updCnt ELSE m.updCnt + 1]

\* an upsert that leaves an entry it finds in the ledger as it is
UpsertNewOnly(m, repo, base) ==
    LET data == repoData(repo, base, sourcesLatest, sourcesStable, run)
        repoKey == repo.full_name
        isNew == repoKey \notin DOMAIN m.repos
    IN  [m EXCEPT !.repos = IF isNew THEN (repoKey :> data) @@ m.repos ELSE m.repos,
                  !.found = IF isNew THEN Append(m.found, repoKey) ELSE m.found,
                  !.newCnt = IF isNew THEN m.newCnt + 1 ELSE m.newCnt,
                  !.updCnt = IF isNew THEN m.updCnt ELSE m.updCnt + 1]

\* an upsert that keeps the entry it finds and only sets its flag
UpsertFlagOnly(m, repo, base) ==
    LET data == repoData(repo, base, sourcesLatest, sourcesStable, run)
        repoKey == repo.full_name
        isNew == repoKey \notin DOMAIN m.repos
    IN  [m EXCEPT !.repos = IF isNew THEN (repoKey :> data) @@ m.repos
                            ELSE [m.repos EXCEPT ![repoKey].valid = TRUE],
                  !.found = IF isNew THEN Append(m.found, repoKey) ELSE m.found,
                  !.newCnt = IF isNew THEN m.newCnt + 1 ELSE m.newCnt,
                  !.updCnt = IF isNew THEN m.updCnt ELSE m.updCnt + 1]

\* an upsert that pushes every matching record to foundRepositories
UpsertPushesAll(m, repo, base) ==
    LET data == repoData(repo, base, sourcesLatest, sourcesStable, run)
        repoKey == repo.full_name
        isNew == repoKey \notin DOMAIN m.repos
    IN  [m EXCEPT !.repos = (repoKey :> data) @@ m.repos,
                  !.found = Append(m.found, repoKey),
                  !.newCnt = IF isNew THEN m.newCnt + 1 ELSE m.newCnt,
                  !.updCnt = IF isNew THEN m.updCnt ELSE m.updCnt + 1]

\* new or update, then repositories[repoKey] = repoData
Upsert(m, repo, base) ==
    LET data == repoData(repo, base, sourcesLatest, sourcesStable, run)
        repoKey == repo.full_name
        isNew == repoKey \notin DOMAIN m.repos
    IN  [m EXCEPT !.repos = (repoKey :> data) @@ m.repos,
                  !.found = IF isNew THEN Append(m.found, repoKey) ELSE m.found,
                  !.newCnt = IF isNew THEN m.newCnt + 1 ELSE m.newCnt,
                  !.updCnt = IF isNew THEN m.updCnt ELSE m.updCnt + 1]

RECURSIVE ProcessRecords(_, _)
RECURSIVE AfterFilter(_, _)

\* for (const repo of strategyResults): from record m.ri on, up to the next
\* request. Records whose name fails the pattern are passed over: they
\* issue no request and change nothing.
ProcessRecords(results, m) ==
    LET cand == {i \in m.ri..Len(results) : results[i] \in MatchingIds}
    IN  IF cand = {}
        THEN [m EXCEPT !.ri = Len(results) + 1, !.await = "strategyDelay"]
        ELSE LET m1 == [m EXCEPT !.ri = Min(cand)]
                 repo == RawRecord(results[m1.ri])
             IN  IF AlreadyValid(m1.repos, repo)
                 THEN AfterFilter(results, m1)
                 ELSE [m1 EXCEPT !.await = "probe"]

\* the record at m.ri passed isLikelyIoBrokerAdapter: getRootRepository
AfterFilter(results, m) ==
    LET repo == RawRecord(results[m.ri])
        mp == [m EXCEPT !.passed = m.passed \cup {repo.full_name}, !.passes = m.passes + 1]
    IN  IF ~repo.fork
        THEN ProcessRecords(results, [Upsert(mp, repo, repo.full_name) EXCEPT !.ri = m.ri + 1])
        ELSE [mp EXCEPT !.await = "repoGet", !.cur = NoRepo]

\* the record at m.ri got its base: upsert it and go on
AfterRoot(results, m, base) ==
    ProcessRecords(results, [Upsert(m, RawRecord(results[m.ri]), base)
                                EXCEPT !.ri = m.ri + 1, !.cur = NoRepo])

Machine ==
    [repos |-> existingRepositories.repositories,
     found |-> foundRepositories,
     newCnt |-> newRepositoriesFound,
     updCnt |-> updatedRepositories,
     passed |-> passedFilter,
     passes |-> passCount,
     ri |-> ri,
     cur |-> currentRepo,
     await |-> pc]

\* the state after the loop ran to machine m
Resume(m) ==
    /\ existingRepositories' = [existingRepositories EXCEPT !.repositories = m.repos]
    /\ foundRepositories' = m.found
    /\ newRepositoriesFound' = m.newCnt
    /\ updatedRepositories' = m.updCnt
    /\ passedFilter' = m.passed
    /\ passCount' = m.passes
    /\ ri' = m.ri
    /\ currentRepo' = m.cur
    /\ pc' = m.await
    /\ inflight' = CASE m.await = "probe" -> {"repos.getContent"}
                     [] m.await = "repoGet" -> {"repos.get"}
                     [] OTHER -> {}

\* the budget of events is charged in the main specification alone
Charge(w, cost) ==
    IF w.fixed
    THEN events' = events
    ELSE /\ events + cost <= MaxEvents
         /\ events' = events + cost

(***************************************************************************)
(* Continuations shared by the actions.                                    *)
(***************************************************************************)
\* octokit.rest.search.repos({q: strategy.query, per_page: 100, page})
IssueSearch ==
    /\ pc' = "search"
    /\ inflight' = {"search.repos"}

\* searchWithStrategy returned `result` to the for loop of the scan
ReturnToScan(result) ==
    /\ strategyResults' = result
    /\ Resume(ProcessRecords(result, [Machine EXCEPT !.ri = 1, !.cur = NoRepo]))

\* searchYearByMonths(ys) entered from the frame that had collected
\* `pagesSoFar`: the first monthly strategy is searched
Subdivide(ys, pagesSoFar) ==
    /\ yearStrategy' = ys
    /\ yearRepositories' = pagesSoFar
    /\ month' = 1
    /\ allRepositories' = <<>>
    /\ strategy' = MonthStrategy(ys, 1, tzOffset)
    /\ repositories' = <<>>
    /\ page' = 1
    /\ hasNextPage' = TRUE
    /\ IssueSearch
    /\ UNCHANGED <<ledgerVars, loopVars>>

\* the frame of strategy s returns `result`: to searchYearByMonths when s is
\* monthly, to the scan otherwise
ReturnFromFrame(s, result) ==
    IF s.isMonthly
    THEN /\ allRepositories' = allRepositories \o result
         /\ pc' = "monthDelay"
         /\ inflight' = {}
         /\ UNCHANGED <<yearStrategy, yearRepositories, month, ledgerVars, loopVars>>
    ELSE /\ ReturnToScan(result)
         /\ UNCHANGED subVars

\* the code after the while loop of searchWithStrategy
AfterLoop(s, repos) ==
    IF HitExactLimit(s, repos)
    THEN Subdivide(s, repos)
    ELSE /\ ReturnFromFrame(s, repos)
         /\ UNCHANGED fetchVars

\* the for loop of the scan reaches strategy number i with the ledger
\* values of machine m: the strategy is searched, or, past the last one,
\* the ledger is saved and the process exits
EnterStrategy(i, strategies, m) ==
    /\ si' = i
    /\ foundRepositories' = m.found
    /\ newRepositoriesFound' = m.newCnt
    /\ updatedRepositories' = m.updCnt
    /\ IF i <= Len(strategies)
       THEN /\ existingRepositories' = [existingRepositories EXCEPT !.repositories = m.repos]
            /\ strategy' = strategies[i]
            /\ repositories' = <<>>
            /\ page' = 1
            /\ hasNextPage' = TRUE
            /\ IssueSearch
            /\ UNCHANGED <<file, exitCode>>
       ELSE /\ existingRepositories' =
                   [existingRepositories EXCEPT !.repositories = CleanedRepositories(m.repos, cleanup)]
            /\ file' = [exists |-> TRUE, readable |-> TRUE, complete |-> TRUE,
                        doc |-> LedgerDocument(CleanedRepositories(m.repos, cleanup), m.found,
                                               getSearchStrategies(currentYear), run)]
            /\ pc' = "idle"
            /\ inflight' = {}
            /\ exitCode' = ExitOk
            /\ UNCHANGED fetchVars
    /\ yearStrategy' = NoStrategy
    /\ yearRepositories' = <<>>
    /\ month' = 0
    /\ allRepositories' = <<>>
    /\ strategyResults' = <<>>
    /\ ri' = 0
    /\ currentRepo' = NoRepo
    /\ frameLog' = <<>>
    /\ servedMonths' = <<>>
    /\ passedFilter' = m.passed
    /\ passCount' = m.passes
    /\ UNCHANGED lastError

(***************************************************************************)
(* Actions.                                                                *)
(***************************************************************************)
\* main(): the constructor loads the ledger, scanForIoBrokerRepositories
\* starts both manifest loads and waits for them
StartProcess ==
    /\ pc = "idle"
    /\ run < MaxRuns
    /\ run' = run + 1
    /\ cleanup' \in (IF world.fixed THEN {world.cleanup} ELSE BOOLEAN)
    /\ exitCode' = ExitNone
    /\ fileAtStart' = file
    /\ existingRepositories' = loadExistingRepositories(file)
    /\ foundRepositories' = <<>>
    /\ passedFilter' = {}
    /\ passCount' = 0
    /\ sourcesLatest' = NoDoc
    /\ sourcesStable' = NoDoc
    /\ inflight' = {"sources-dist.json", "sources-dist-stable.json"}
    /\ pc' = "sources"
    /\ existingRepoKeys' = {}
    /\ newRepositoriesFound' = 0
    /\ updatedRepositories' = 0
    /\ searchStrategies' = <<>>
    /\ si' = 0
    /\ strategyResults' = <<>>
    /\ ri' = 0
    /\ currentRepo' = NoRepo
    /\ strategy' = NoStrategy
    /\ repositories' = <<>>
    /\ page' = 0
    /\ hasNextPage' = FALSE
    /\ yearStrategy' = NoStrategy
    /\ yearRepositories' = <<>>
    /\ month' = 0
    /\ allRepositories' = <<>>
    /\ frameLog' = <<>>
    /\ servedMonths' = <<>>
    /\ lastError' = NoError
    /\ bigFrame' = FALSE
    /\ UNCHANGED <<envVars, planVars, file, events>>

\* Promise.all resolved: existing entries are marked invalid, the strategies
\* are built and the first one is searched
BeginScan(repos) ==
    /\ existingRepoKeys' = DOMAIN repos
    /\ searchStrategies' = getSearchStrategies(currentYear)
    /\ EnterStrategy(1, getSearchStrategies(currentYear),
                     [repos |-> MarkAllInvalid(repos), found |-> foundRepositories,
                      newCnt |-> 0, updCnt |-> 0, passed |-> {}, passes |-> 0])

\* Object.keys(this.existingRepositories.repositories) throws a TypeError
\* when the loaded ledger has no repositories member: the catch of the scan
\* re-throws it up to main, which exits with status 1
ScanThrows ==
    /\ pc' = "idle"
    /\ inflight' = {}
    /\ exitCode' = ExitFailure
    /\ UNCHANGED <<file, ledgerVars, scanVars, si, loopVars, fetchVars, subVars, logVars>>

\* the code after Promise.all, on the ledger the constructor loaded
AfterSources ==
    IF "repositories" \in DOMAIN existingRepositories
    THEN BeginScan(existingRepositories.repositories)
    ELSE ScanThrows

\* loadSourcesLatest: the content request is answered
LoadSourcesLatestDone ==
    /\ pc = "sources"
    /\ "sources-dist.json" \in inflight
    /\ \E ok \in (IF world.fixed THEN {world.sources.latest} ELSE BOOLEAN) :
        /\ Charge(world, IF ok THEN 0 ELSE 1)
        /\ sourcesLatest' = IF ok THEN SourcesDist ELSE EmptyDoc
    /\ UNCHANGED sourcesStable
    /\ IF inflight = {"sources-dist.json"}
       THEN AfterSources
       ELSE /\ inflight' = inflight \ {"sources-dist.json"}
            /\ UNCHANGED <<pc, exitCode, file, ledgerVars, scanVars, si, loopVars,
                           fetchVars, subVars, logVars>>
    /\ UNCHANGED <<envVars, planVars, fileAtStart, procVars, bigFrame>>

\* loadSourcesStable: the content request is answered
LoadSourcesStableDone ==
    /\ pc = "sources"
    /\ "sources-dist-stable.json" \in inflight
    /\ \E ok \in (IF world.fixed THEN {world.sources.stable} ELSE BOOLEAN) :
        /\ Charge(world, IF ok THEN 0 ELSE 1)
        /\ sourcesStable' = IF ok THEN SourcesDist ELSE EmptyDoc
    /\ UNCHANGED sourcesLatest
    /\ IF inflight = {"sources-dist-stable.json"}
       THEN AfterSources
       ELSE /\ inflight' = inflight \ {"sources-dist-stable.json"}
            /\ UNCHANGED <<pc, exitCode, file, ledgerVars, scanVars, si, loopVars,
                           fetchVars, subVars, logVars>>
    /\ UNCHANGED <<envVars, planVars, fileAtStart, procVars, bigFrame>>

LogEntry(p, outcome, items) == [page |-> p, outcome |-> outcome, count |-> Len(items)]

\* the search request is answered with a page of records
SearchPageOk ==
    /\ pc = "search"
    /\ \E items \in {a.items : a \in {b \in SearchAnswers(world, strategy, si) : b.error = NoError}} :
        /\ Charge(world, IF (items = FullPage /\ ~bigFrame) \/ (items # FullPage /\ items # <<>>)
                         THEN 1 ELSE 0)
        /\ bigFrame' = (bigFrame \/ items = FullPage)
        /\ repositories' = repositories \o items
        /\ hasNextPage' = HasNextPage(items)
        /\ frameLog' = Append(frameLog, LogEntry(page, "ok", items))
        /\ servedMonths' = IF strategy.isMonthly THEN servedMonths \o items ELSE servedMonths
    /\ lastError' = NoError
    /\ page' = page + 1
    /\ pc' = "pageDelay"
    /\ inflight' = {}
    /\ UNCHANGED <<envVars, planVars, diskVars, procVars, exitCode, ledgerVars, srcVars, scanVars, si,
                   loopVars, strategy, subVars>>

\* delay(100) after a page is over: the while loop goes on or ends
PageDelayDone ==
    /\ pc = "pageDelay"
    /\ IF LoopContinues(hasNextPage, page)
       THEN /\ IssueSearch
            /\ UNCHANGED <<ledgerVars, loopVars, fetchVars, subVars>>
       ELSE AfterLoop(strategy, repositories)
    /\ events' = events
    /\ bigFrame' = (bigFrame /\ strategy' = strategy /\ pc' = "search")
    /\ frameLog' = IF strategy' = strategy THEN frameLog ELSE <<>>
    /\ servedMonths' = IF yearStrategy' = yearStrategy THEN servedMonths ELSE <<>>
    /\ UNCHANGED <<envVars, planVars, diskVars, procVars, exitCode, srcVars, scanVars, si, lastError>>

\* the search request is answered with an error: the limit error is caught,
\* any other error is thrown up to main, which exits with status 1
SearchPageError ==
    /\ pc = "search"
    /\ \E error \in {a.error : a \in {b \in SearchAnswers(world, strategy, si) : b.error # NoError}} :
        /\ Charge(world, IF error = LimitError THEN 1 ELSE 0)
        /\ lastError' = error
        /\ IF IsLimitError(error)
           THEN /\ IF IsYearStrategy(strategy)
                   THEN Subdivide(strategy, repositories)
                   ELSE AfterLoop(strategy, repositories)
                /\ UNCHANGED exitCode
           ELSE /\ pc' = "idle"
                /\ inflight' = {}
                /\ exitCode' = ExitFailure
                /\ UNCHANGED <<ledgerVars, loopVars, fetchVars, subVars>>
    /\ bigFrame' = FALSE
    /\ frameLog' = IF strategy' = strategy
                   THEN Append(frameLog, LogEntry(page, "error", <<>>))
                   ELSE <<>>
    /\ servedMonths' = IF yearStrategy' = yearStrategy THEN servedMonths ELSE <<>>
    /\ UNCHANGED <<envVars, planVars, diskVars, procVars, srcVars, scanVars, si>>

\* delay(500) after a month is over: the next month, or searchYearByMonths
\* returns and the subdivided frame returns to the scan
MonthDelayDone ==
    /\ pc = "monthDelay"
    /\ IF month < 12
       THEN /\ month' = month + 1
            /\ strategy' = MonthStrategy(yearStrategy, month + 1, tzOffset)
            /\ repositories' = <<>>
            /\ page' = 1
            /\ hasNextPage' = TRUE
            /\ IssueSearch
            /\ UNCHANGED <<yearStrategy, yearRepositories, allRepositories, ledgerVars, loopVars>>
       ELSE /\ ReturnToScan(YearlyResult(yearRepositories, allRepositories))
            /\ UNCHANGED <<fetchVars, subVars>>
    /\ events' = events
    /\ bigFrame' = (bigFrame /\ strategy' = strategy /\ pc' = "search")
    /\ frameLog' = IF strategy' = strategy THEN frameLog ELSE <<>>
    /\ servedMonths' = IF yearStrategy' = yearStrategy THEN servedMonths ELSE <<>>
    /\ UNCHANGED <<envVars, planVars, diskVars, procVars, exitCode, srcVars, scanVars, si, lastError>>

\* hasIoPackageJson: the content request for io-package.json is answered
ProbeResponse ==
    /\ pc = "probe"
    /\ \E answer \in (IF world.fixed THEN {world.probe} ELSE {"ok", "notFound", "error"}) :
        /\ Charge(world, IF answer = "ok" THEN 0 ELSE 1)
        /\ IF hasIoPackageJson(answer)
           THEN Resume(AfterFilter(strategyResults, Machine))
           ELSE Resume(ProcessRecords(strategyResults, [Machine EXCEPT !.ri = ri + 1]))
    /\ UNCHANGED <<envVars, planVars, diskVars, procVars, exitCode, srcVars, scanVars, si,
                   strategyResults, fetchVars, subVars, bigFrame, logVars>>

\* getRootRepository: a repository lookup is answered. currentRepo is NoRepo
\* for the lookup of the record itself, the summary walked otherwise.
RepoGetResponse ==
    /\ pc = "repoGet"
    /\ LET repo == RawRecord(strategyResults[ri])
           looked == IF currentRepo = NoRepo THEN repo.full_name ELSE currentRepo.full_name
       IN  \E answer \in RepoAnswers(world, looked) :
              LET p == answer.parent
              IN  /\ Charge(world, IF answer.kind = "parent" /\ ~(p.fork /\ p.parent) THEN 0 ELSE 1)
                  /\ CASE answer.kind = "error" ->
                            Resume(AfterRoot(strategyResults, Machine, NullName))
                       [] answer.kind = "noParent" ->
                            Resume(AfterRoot(strategyResults, Machine, looked))
                       [] OTHER ->
                            IF p.fork /\ p.parent
                            THEN Resume([Machine EXCEPT !.cur = p])
                            ELSE Resume(AfterRoot(strategyResults, Machine, p.full_name))
    /\ UNCHANGED <<envVars, planVars, diskVars, procVars, exitCode, srcVars, scanVars, si,
                   strategyResults, fetchVars, subVars, bigFrame, logVars>>

\* delay(500) after a strategy is over: the next strategy, or the save
StrategyDelayDone ==
    /\ pc = "strategyDelay"
    /\ EnterStrategy(si + 1, searchStrategies,
                     [repos |-> existingRepositories.repositories, found |-> foundRepositories,
                      newCnt |-> newRepositoriesFound, updCnt |-> updatedRepositories,
                      passed |-> passedFilter, passes |-> passCount])
    /\ bigFrame' = FALSE
    /\ UNCHANGED <<envVars, planVars, fileAtStart, procVars, srcVars, scanVars, events>>

Next ==
    \/ StartProcess
    \/ LoadSourcesLatestDone
    \/ LoadSourcesStableDone
    \/ SearchPageOk
    \/ PageDelayDone
    \/ SearchPageError
    \/ MonthDelayDone
    \/ ProbeResponse
    \/ RepoGetResponse
    \/ StrategyDelayDone

Spec == Init /\ [][Next]_vars

(***************************************************************************)
(* The scanner in a fixed world, the save allowed to fail.                 *)
(***************************************************************************)
\* a time before the first run of the model
EarlierTime == -1

\* a ledger file an earlier scan left: one valid entry, of the fork r2
StaleFile ==
    LET repo == RawRecord("r2")
    IN  [exists |-> TRUE, readable |-> TRUE, complete |-> TRUE,
         doc |-> LedgerDocument(
                     repo.full_name :> repoData(repo, FullName(Str_o, Str_ioBroker_test),
                                                SourcesDist, SourcesDist, EarlierTime),
                     <<repo.full_name>>, getSearchStrategies(MaxYear), EarlierTime)]

InitWorld ==
    /\ currentYear = MaxYear
    /\ tzOffset = 0
    /\ world \in Worlds
    /\ file \in {NoFile, StaleFile}
    /\ pc = "idle"
    /\ InitRest

\* saveRepositoriesToJson: fs.writeFileSync throws (a full disk, say). The
\* error is re-thrown up to main, which exits with status 1. The file is as
\* it was when it could not be opened, cut short otherwise.
SaveFails ==
    /\ pc = "strategyDelay"
    /\ si = Len(searchStrategies)
    /\ \E opened \in BOOLEAN :
        file' = IF opened
                THEN [exists |-> TRUE, readable |-> TRUE, complete |-> FALSE,
                      doc |-> LedgerDocument(
                                  CleanedRepositories(existingRepositories.repositories, cleanup),
                                  foundRepositories, getSearchStrategies(currentYear), run)]
                ELSE file
    /\ existingRepositories' =
           [existingRepositories EXCEPT !.repositories = CleanedRepositories(@, cleanup)]
    /\ pc' = "idle"
    /\ inflight' = {}
    /\ exitCode' = ExitFailure
    /\ UNCHANGED <<envVars, planVars, fileAtStart, procVars, srcVars, scanVars, si,
                   foundRepositories, newRepositoriesFound, updatedRepositories, passedFilter, passCount,
                   loopVars, fetchVars, subVars, budgetVars, logVars>>

NextWorld ==
    \/ Next
    \/ SaveFails

SpecWorld == InitWorld /\ [][NextWorld]_vars

\* the worlds whose first year is saturated and whose probes succeed, one
\* for each network, from no ledger file
InitWorldLive ==
    /\ InitWorld
    /\ world.results[1].error = LimitError
    /\ world.probe = "ok"
    /\ ~world.cleanup
    /\ ~world.dryRun
    /\ file = NoFile

\* what a step of RepoGetResponse does to the walk of getRootRepository:
\* the lookup awaited is answered, and the walk is at another summary or
\* over
LookupAnswered ==
    /\ pc = "repoGet"
    /\ pc' \in {"repoGet", "probe", "strategyDelay"}
    /\ currentRepo' \in {NoRepo} \cup ParentSummaries
                        \cup {RepoLookup(net, x).parent : net \in Networks, x \in DOMAIN ForkNetworks.none}

\* every repository lookup is answered in the end
SpecWorldLive == InitWorldLive /\ [][NextWorld]_vars /\ WF_<<pc, currentRepo>>(LookupAnswered)

\* the states the scanner may find ioBrokerRepositories.json in: absent,
\* unreadable, cut short, the text null, an object without a repositories
\* member, a ledger
FileStates ==
    {NoFile,
     [StaleFile EXCEPT !.readable = FALSE],
     [StaleFile EXCEPT !.complete = FALSE],
     [StaleFile EXCEPT !.doc = JsonNull],
     [StaleFile EXCEPT !.doc = ObjectWithoutRepositories],
     StaleFile}

InitFiles ==
    /\ currentYear = MaxYear
    /\ tzOffset = 0
    /\ world \in Worlds
    /\ ~world.dryRun
    /\ file \in FileStates
    /\ pc = "idle"
    /\ InitRest

SpecFiles == InitFiles /\ [][NextWorld]_vars

\* what any step of a running process does to its position: the request
\* or the delay it waits for is over, and it waits for the next one or has
\* exited
ProcessStep ==
    /\ pc # "idle"
    /\ pc' \in {"idle", "sources", "search", "pageDelay", "monthDelay", "probe", "repoGet",
                "strategyDelay"}
    /\ inflight' \in SUBSET {"sources-dist.json", "sources-dist-stable.json", "search.repos",
                             "repos.getContent", "repos.get"}
    /\ currentRepo' \in {NoRepo} \cup ParentSummaries
                        \cup {RepoLookup(net, x).parent : net \in Networks, x \in DOMAIN ForkNetworks.none}
    /\ ri' \in 0..(perPage + 1)

\* every request is answered and every delay elapses in the end, and the
\* save succeeds
SpecScanLive ==
    InitWorldLive /\ [][Next]_vars /\ WF_<<pc, inflight, currentRepo, ri>>(ProcessStep)

InitFaults ==
    /\ currentYear = MaxYear
    /\ tzOffset = 0
    /\ world \in FaultyWorlds
    /\ ~world.dryRun
    /\ file \in {NoFile, StaleFile}
    /\ pc = "idle"
    /\ InitRest

SpecFaults == InitFaults /\ [][NextWorld]_vars

\* the fixed worlds in a later year: the scan runs over several years
InitYears ==
    /\ currentYear = MaxPlanYear
    /\ tzOffset = 0
    /\ world \in Worlds
    /\ file = NoFile
    /\ pc = "idle"
    /\ InitRest

SpecYears == InitYears /\ [][NextWorld]_vars

(***************************************************************************)
(* The planner on its own: getSearchStrategies and the strategies the     *)
(* loop of searchYearByMonths builds, for the years and the time zones a  *)
(* process may run in.                                                     *)
(***************************************************************************)
InitPlan ==
    /\ currentYear \in startYear..MaxPlanYear
    /\ tzOffset \in TzOffsets
    /\ world = AnyWorld
    /\ file = NoFile
    /\ pc = "plan"
    /\ InitRest

scannerVars == <<diskVars, procVars, exitCode, ledgerVars, srcVars, inflight, existingRepoKeys,
                 si, loopVars, fetchVars, yearRepositories, allRepositories, budgetVars, logVars>>

\* const searchStrategies = this.getSearchStrategies()
PlanYears ==
    /\ pc = "plan"
    /\ searchStrategies' = getSearchStrategies(currentYear)
    /\ pc' = "planned"
    /\ UNCHANGED <<envVars, planVars, scannerVars, yearStrategy, month>>

\* searchYearByMonths(yearStrategy) is entered for one of the year
\* strategies: the strategy of month 1 is built
PlanFirstMonth ==
    /\ pc = "planned"
    /\ \E i \in 1..Len(searchStrategies) :
        /\ yearStrategy' = searchStrategies[i]
        /\ monthStrategies' = <<MonthStrategy(searchStrategies[i], 1, tzOffset)>>
    /\ month' = 1
    /\ pc' = "months"
    /\ UNCHANGED <<envVars, scannerVars, searchStrategies>>

\* the next iteration of for (let month = 1; month <= 12; month++)
PlanNextMonth ==
    /\ pc = "months"
    /\ month < 12
    /\ month' = month + 1
    /\ monthStrategies' = Append(monthStrategies, MonthStrategy(yearStrategy, month + 1, tzOffset))
    /\ UNCHANGED <<envVars, scannerVars, searchStrategies, yearStrategy, pc>>

NextPlan ==
    \/ PlanYears
    \/ PlanFirstMonth
    \/ PlanNextMonth

SpecPlan == InitPlan /\ [][NextPlan]_vars

(***************************************************************************)
(* What the search service makes of the qualifiers of a query.  The       *)
(* service documents fork:true as "forks as well"; the comments and the   *)
(* descriptions of searchConfigurations read it as "forks only".           *)
(***************************************************************************)
ForkReadings == {"forksToo", "forksOnly"}

ForkMatches(qualifier, fork, reading) ==
    CASE qualifier = "fork:false" -> ~fork
      [] qualifier = "fork:true" -> (reading = "forksToo" \/ fork)
      [] OTHER -> ~fork

ArchivedMatches(qualifier, archived) ==
    CASE qualifier = "archived:false" -> ~archived
      [] qualifier = "archived:true" -> archived
      [] OTHER -> TRUE

\* created:from..to, both ends inclusive
CreatedMatches(query, date) == DateLE(query.createdFrom, date) /\ DateLE(date, query.createdTo)

\* a repository that matches the base query, with the given flags and
\* creation date, is matched by the query of strategy s
StrategyMatches(s, fork, archived, date, reading) ==
    /\ ForkMatches(s.query.fork, fork, reading)
    /\ ArchivedMatches(s.query.archived, archived)
    /\ CreatedMatches(s.query, date)

(***************************************************************************)
(* The scanner of src/unnamed/part_001: one strategy per year, the        *)
(* heuristic filter, no auxiliary requests, no cleanup.                    *)
(***************************************************************************)
Iobroker == <<"i", "o", "b", "r", "o", "k", "e", "r">>

Adapter == <<"a", "d", "a", "p", "t", "e", "r">>
Integration == <<"i", "n", "t", "e", "g", "r", "a", "t", "i", "o", "n">>

\* a filter that reads the description as it is written
FilterCaseSensitive(repo) ==
    LET name == toLowerCase(repo.name)
        description == DescriptionOrEmpty(repo.description)
        topics == TopicsOrEmpty(repo.topics)
        hasIoBrokerTopic == \E i \in 1..Len(topics) : includes(topics[i], Iobroker)
        hasAdapterTopic == \E i \in 1..Len(topics) : includes(topics[i], Adapter)
    IN  \/ startsWith(name, Iobroker)
        \/ /\ includes(description, Iobroker)
           /\ (includes(description, Adapter) \/ includes(description, Integration))
        \/ hasIoBrokerTopic /\ hasAdapterTopic

P1_isLikelyIoBrokerAdapter(repo) ==
    LET name == toLowerCase(repo.name)
        description == toLowerCase(DescriptionOrEmpty(repo.description))
        topics == TopicsOrEmpty(repo.topics)
        hasIoBrokerTopic == \E i \in 1..Len(topics) : includes(topics[i], Iobroker)
        hasAdapterTopic == \E i \in 1..Len(topics) : includes(topics[i], Adapter)
    IN  \/ startsWith(name, Iobroker)
        \/ /\ includes(description, Iobroker)
           /\ (includes(description, Adapter) \/ includes(description, Integration))
        \/ hasIoBrokerTopic /\ hasAdapterTopic

P1_YearStrategy(year) ==
    [query |-> [base |-> baseQuery, fork |-> "", archived |-> "",
                createdFrom |-> <<year, 1, 1>>, createdTo |-> <<year, 12, 31>>,
                extra |-> additionalQualifiers],
     description |-> <<"Repositories created in", year, 0>>,
     year |-> year,
     month |-> 0,
     forkQualifier |-> "",
     archivedState |-> "",
     isMonthly |-> FALSE]

P1_getSearchStrategies(thisYear) ==
    LET n == IF thisYear >= startYear THEN thisYear - startYear + 1 ELSE 0
    IN  [i \in 1..n |-> P1_YearStrategy(thisYear - i + 1)]

P1_MonthStrategy(ys, m, tz) ==
    [query |-> [base |-> baseQuery, fork |-> "", archived |-> "",
                createdFrom |-> <<ys.year, m, 1>>,
                createdTo |-> MonthEndDate(ys.year, m, tz),
                extra |-> additionalQualifiers],
     description |-> <<"Repositories created in", ys.year, m>>,
     year |-> ys.year,
     month |-> m,
     forkQualifier |-> "",
     archivedState |-> "",
     isMonthly |-> TRUE]

\* what a subdivided year strategy returns: the pages it had collected,
\* then the monthly results
P1_YearlyResult(yearPages, monthlyResults) == yearPages \o monthlyResults

P1_repoData(repo, now) ==
    [name |-> repo.name, full_name |-> repo.full_name, valid |-> TRUE, lastScanned |-> now]

P1_Upsert(m, repo) ==
    LET repoKey == repo.full_name
        isNew == repoKey \notin DOMAIN m.repos
    IN  [m EXCEPT !.repos = (repoKey :> P1_repoData(repo, run)) @@ m.repos,
                  !.passed = m.passed \cup {repoKey},
                  !.passes = m.passes + 1,
                  !.found = IF isNew THEN Append(m.found, repoKey) ELSE m.found,
                  !.newCnt = IF isNew THEN m.newCnt + 1 ELSE m.newCnt,
                  !.updCnt = IF isNew THEN m.updCnt ELSE m.updCnt + 1]

\* for (const repo of strategyResults): records failing the filter are
\* passed over
RECURSIVE P1_ProcessRecords(_, _)
P1_ProcessRecords(results, m) ==
    LET cand == {i \in m.ri..Len(results) : P1_isLikelyIoBrokerAdapter(RawRecord(results[i]))}
    IN  IF cand = {}
        THEN [m EXCEPT !.ri = Len(results) + 1]
        ELSE P1_ProcessRecords(results, [P1_Upsert(m, RawRecord(results[Min(cand)]))
                                            EXCEPT !.ri = Min(cand) + 1])

P1_LedgerDocument(repos, found, strategies, now) ==
    [lastUpdated |-> now,
     totalRepositories |-> Cardinality(DOMAIN repos),
     scanSummary |-> [newRepositoriesFound |-> Len(found),
                      searchStrategies |-> [i \in 1..Len(strategies) |-> strategies[i].description],
                      baseSearchQuery |-> baseQuery,
                      additionalQualifiers |-> additionalQualifiers],
     repositories |-> repos]

\* searchWithStrategy returned `result` to the for loop of the scan, which
\* runs to its delay(500)
P1_ReturnToScan(result) ==
    LET m == P1_ProcessRecords(result, [repos |-> existingRepositories.repositories,
                                        found |-> foundRepositories,
                                        newCnt |-> newRepositoriesFound,
                                        updCnt |-> updatedRepositories,
                                        passed |-> passedFilter,
                                        passes |-> passCount,
                                        ri |-> 1])
    IN  /\ strategyResults' = result
        /\ existingRepositories' = [existingRepositories EXCEPT !.repositories = m.repos]
        /\ foundRepositories' = m.found
        /\ newRepositoriesFound' = m.newCnt
        /\ updatedRepositories' = m.updCnt
        /\ passedFilter' = m.passed
        /\ passCount' = m.passes
        /\ ri' = m.ri
        /\ pc' = "strategyDelay"
        /\ inflight' = {}

P1_Subdivide(ys, pagesSoFar) ==
    /\ yearStrategy' = ys
    /\ yearRepositories' = pagesSoFar
    /\ month' = 1
    /\ allRepositories' = <<>>
    /\ strategy' = P1_MonthStrategy(ys, 1, tzOffset)
    /\ repositories' = <<>>
    /\ page' = 1
    /\ hasNextPage' = TRUE
    /\ IssueSearch
    /\ UNCHANGED <<ledgerVars, strategyResults, ri>>

P1_ReturnFromFrame(s, result) ==
    IF s.isMonthly
    THEN /\ allRepositories' = allRepositories \o result
         /\ pc' = "monthDelay"
         /\ inflight' = {}
         /\ UNCHANGED <<yearStrategy, yearRepositories, month, ledgerVars, strategyResults, ri>>
    ELSE /\ P1_ReturnToScan(result)
         /\ UNCHANGED subVars

\* the for loop of the scan reaches strategy number i: it is searched, or,
\* past the last one, the ledger is saved and the process exits
P1_EnterStrategy(i, strategies, repos) ==
    /\ si' = i
    /\ existingRepositories' = [existingRepositories EXCEPT !.repositories = repos]
    /\ IF i <= Len(strategies)
       THEN /\ strategy' = strategies[i]
            /\ repositories' = <<>>
            /\ page' = 1
            /\ hasNextPage' = TRUE
            /\ IssueSearch
            /\ file' = file
            /\ exitCode' = ExitNone
       ELSE /\ file' = [exists |-> TRUE, readable |-> TRUE, complete |-> TRUE,
                        doc |-> P1_LedgerDocument(repos, foundRepositories,
                                                  P1_getSearchStrategies(currentYear), run)]
            /\ pc' = "idle"
            /\ inflight' = {}
            /\ exitCode' = ExitOk
            /\ UNCHANGED fetchVars
    /\ yearStrategy' = NoStrategy
    /\ yearRepositories' = <<>>
    /\ month' = 0
    /\ allRepositories' = <<>>
    /\ strategyResults' = <<>>
    /\ ri' = 0
    /\ frameLog' = <<>>
    /\ servedMonths' = <<>>

\* main(): the constructor loads the ledger; the scan marks the entries
\* invalid, builds the strategies and searches the first one
P1_StartProcess ==
    /\ pc = "idle"
    /\ run < MaxRuns
    /\ run' = run + 1
    /\ cleanup' = FALSE
    /\ fileAtStart' = file
    /\ foundRepositories' = <<>>
    /\ passedFilter' = {}
    /\ passCount' = 0
    /\ existingRepoKeys' = DOMAIN loadExistingRepositories(file).repositories
    /\ newRepositoriesFound' = 0
    /\ updatedRepositories' = 0
    /\ searchStrategies' = P1_getSearchStrategies(currentYear)
    /\ P1_EnterStrategy(1, P1_getSearchStrategies(currentYear),
                        MarkAllInvalid(loadExistingRepositories(file).repositories))
    /\ lastError' = NoError
    /\ bigFrame' = FALSE
    /\ UNCHANGED <<envVars, planVars, srcVars, currentRepo, events>>

\* the search request is answered with a page of records
P1_SearchPageOk == SearchPageOk

\* delay(100) after a page is over: the while loop goes on or ends
P1_PageDelayDone ==
    /\ pc = "pageDelay"
    /\ IF LoopContinues(hasNextPage, page)
       THEN /\ IssueSearch
            /\ UNCHANGED <<ledgerVars, strategyResults, ri, fetchVars, subVars>>
       ELSE /\ P1_ReturnFromFrame(strategy, repositories)
            /\ UNCHANGED fetchVars
    /\ bigFrame' = (bigFrame /\ pc' = "search")
    /\ frameLog' = frameLog
    /\ UNCHANGED <<envVars, planVars, diskVars, procVars, exitCode, srcVars, scanVars, si,
                   currentRepo, events, servedMonths, lastError>>

\* the search request is answered with an error
P1_SearchPageError ==
    /\ pc = "search"
    /\ \E error \in {LimitError} \cup OtherErrors :
        /\ error = LimitError => events < MaxEvents
        /\ events' = IF error = LimitError THEN events + 1 ELSE events
        /\ lastError' = error
        /\ IF IsLimitError(error)
           THEN /\ IF IsYearStrategy(strategy)
                   THEN P1_Subdivide(strategy, repositories)
                   ELSE /\ P1_ReturnFromFrame(strategy, repositories)
                        /\ UNCHANGED fetchVars
                /\ UNCHANGED exitCode
           ELSE /\ pc' = "idle"
                /\ inflight' = {}
                /\ exitCode' = ExitFailure
                /\ UNCHANGED <<ledgerVars, strategyResults, ri, fetchVars, subVars>>
    /\ bigFrame' = FALSE
    /\ frameLog' = IF strategy' = strategy
                   THEN Append(frameLog, LogEntry(page, "error", <<>>))
                   ELSE <<>>
    /\ servedMonths' = IF yearStrategy' = yearStrategy THEN servedMonths ELSE <<>>
    /\ UNCHANGED <<envVars, planVars, diskVars, procVars, srcVars, scanVars, si, currentRepo>>

\* delay(500) after a month is over
P1_MonthDelayDone ==
    /\ pc = "monthDelay"
    /\ IF month < 12
       THEN /\ month' = month + 1
            /\ strategy' = P1_MonthStrategy(yearStrategy, month + 1, tzOffset)
            /\ repositories' = <<>>
            /\ page' = 1
            /\ hasNextPage' = TRUE
            /\ IssueSearch
            /\ frameLog' = <<>>
            /\ UNCHANGED <<yearStrategy, yearRepositories, allRepositories, ledgerVars,
                           strategyResults, ri>>
       ELSE /\ P1_ReturnToScan(P1_YearlyResult(yearRepositories, allRepositories))
            /\ frameLog' = frameLog
            /\ UNCHANGED <<fetchVars, subVars>>
    /\ bigFrame' = FALSE
    /\ UNCHANGED <<envVars, planVars, diskVars, procVars, exitCode, srcVars, scanVars, si,
                   currentRepo, events, servedMonths, lastError>>

\* delay(500) after a strategy is over: the next strategy, or the save
P1_StrategyDelayDone ==
    /\ pc = "strategyDelay"
    /\ P1_EnterStrategy(si + 1, searchStrategies, existingRepositories.repositories)
    /\ bigFrame' = FALSE
    /\ UNCHANGED <<envVars, planVars, fileAtStart, procVars, srcVars, scanVars, currentRepo,
                   foundRepositories, newRepositoriesFound, updatedRepositories, passedFilter, passCount,
                   events, lastError>>

NextPart001 ==
    \/ P1_StartProcess
    \/ P1_SearchPageOk
    \/ P1_PageDelayDone
    \/ P1_SearchPageError
    \/ P1_MonthDelayDone
    \/ P1_StrategyDelayDone

SpecPart001 == Init /\ [][NextPart001]_vars

(***************************************************************************)
(* The scanner of src/scripts/scanGithub.js: one query, paginated in the  *)
(* scan itself.                                                            *)
(***************************************************************************)
SG_isLikelyIoBrokerAdapter(repo) ==
    LET name == toLowerCase(repo.name)
        description == toLowerCase(DescriptionOrEmpty(repo.description))
        topics == TopicsOrEmpty(repo.topics)
        hasIoBrokerTopic == \E i \in 1..Len(topics) : includes(topics[i], Iobroker)
        hasAdapterTopic == \E i \in 1..Len(topics) : includes(topics[i], Adapter)
    IN  \/ startsWith(name, Iobroker)
        \/ /\ includes(description, Iobroker)
           /\ (includes(description, Adapter) \/ includes(description, Integration))
        \/ hasIoBrokerTopic /\ hasAdapterTopic

SG_repoData(repo, now) ==
    [name |-> repo.name, full_name |-> repo.full_name, valid |-> TRUE, lastScanned |-> now]

SG_Upsert(m, repo) ==
    LET repoKey == repo.full_name
        isNew == repoKey \notin DOMAIN m.repos
    IN  [m EXCEPT !.repos = (repoKey :> SG_repoData(repo, run)) @@ m.repos,
                  !.passed = m.passed \cup {repoKey},
                  !.passes = m.passes + 1,
                  !.found = Append(m.found, repoKey),
                  !.newCnt = IF isNew THEN m.newCnt + 1 ELSE m.newCnt,
                  !.updCnt = IF isNew THEN m.updCnt ELSE m.updCnt + 1]

\* for (const repo of repositories): records failing the filter are passed
\* over
RECURSIVE SG_ProcessRecords(_, _)
SG_ProcessRecords(results, m) ==
    LET cand == {i \in m.ri..Len(results) : SG_isLikelyIoBrokerAdapter(RawRecord(results[i]))}
    IN  IF cand = {}
        THEN [m EXCEPT !.ri = Len(results) + 1]
        ELSE SG_ProcessRecords(results, [SG_Upsert(m, RawRecord(results[Min(cand)]))
                                            EXCEPT !.ri = Min(cand) + 1])

SG_LedgerDocument(repos, found, now) ==
    [lastUpdated |-> now,
     totalRepositories |-> Cardinality(DOMAIN repos),
     scanSummary |-> [newRepositoriesFound |-> Len(found),
                      searchQuery |-> baseQuery,
                      additionalQualifiers |-> additionalQualifiers],
     repositories |-> repos]

\* while (hasNextPage)
SG_LoopContinues(more, p) == more

\* main(): the constructor loads the ledger; the scan marks the entries
\* invalid and requests page 1
SG_StartProcess ==
    /\ pc = "idle"
    /\ run < MaxRuns
    /\ run' = run + 1
    /\ cleanup' = FALSE
    /\ exitCode' = ExitNone
    /\ fileAtStart' = file
    /\ existingRepositories' =
           [loadExistingRepositories(file) EXCEPT
               !.repositories = MarkAllInvalid(loadExistingRepositories(file).repositories)]
    /\ foundRepositories' = <<>>
    /\ passedFilter' = {}
    /\ passCount' = 0
    /\ existingRepoKeys' = DOMAIN loadExistingRepositories(file).repositories
    /\ newRepositoriesFound' = 0
    /\ updatedRepositories' = 0
    /\ repositories' = <<>>
    /\ page' = 1
    /\ hasNextPage' = TRUE
    /\ IssueSearch
    /\ ri' = 0
    /\ frameLog' = <<>>
    /\ lastError' = NoError
    /\ bigFrame' = FALSE
    /\ UNCHANGED <<envVars, planVars, file, srcVars, searchStrategies, si, strategyResults,
                   currentRepo, strategy, subVars, events, servedMonths>>

\* the search request is answered with a page of records: they are filtered
\* and entered up to delay(100)
SG_SearchPageOk ==
    /\ pc = "search"
    /\ \E items \in {FullPage} \cup ShortPages :
        /\ items = FullPage => page <= MaxServedPages
        /\ (items = FullPage /\ ~bigFrame) => events < MaxEvents
        /\ (items # FullPage /\ items # <<>>) => events < MaxEvents
        /\ events' = IF (items = FullPage /\ ~bigFrame) \/ (items # FullPage /\ items # <<>>)
                      THEN events + 1 ELSE events
        /\ bigFrame' = (bigFrame \/ items = FullPage)
        /\ repositories' = items
        /\ hasNextPage' = HasNextPage(items)
        /\ frameLog' = Append(frameLog, LogEntry(page, "ok", items))
        /\ LET m == SG_ProcessRecords(items, [repos |-> existingRepositories.repositories,
                                               found |-> foundRepositories,
                                               newCnt |-> newRepositoriesFound,
                                               updCnt |-> updatedRepositories,
                                               passed |-> passedFilter,
                                               passes |-> passCount,
                                               ri |-> 1])
           IN  /\ existingRepositories' = [existingRepositories EXCEPT !.repositories = m.repos]
               /\ foundRepositories' = m.found
               /\ newRepositoriesFound' = m.newCnt
               /\ updatedRepositories' = m.updCnt
               /\ passedFilter' = m.passed
               /\ passCount' = m.passes
               /\ ri' = m.ri
    /\ lastError' = NoError
    /\ page' = page + 1
    /\ pc' = "pageDelay"
    /\ inflight' = {}
    /\ UNCHANGED <<envVars, planVars, diskVars, procVars, exitCode, srcVars, scanVars, si,
                   strategyResults, currentRepo, strategy, subVars, servedMonths>>

\* delay(100) after a page is over: the next page is requested, or the
\* ledger is saved and the process exits
SG_PageDelayDone ==
    /\ pc = "pageDelay"
    /\ IF SG_LoopContinues(hasNextPage, page)
       THEN /\ IssueSearch
            /\ UNCHANGED <<file, exitCode, bigFrame>>
       ELSE /\ file' = [exists |-> TRUE, readable |-> TRUE, complete |-> TRUE,
                        doc |-> SG_LedgerDocument(existingRepositories.repositories,
                                                  foundRepositories, run)]
            /\ pc' = "idle"
            /\ inflight' = {}
            /\ exitCode' = ExitOk
            /\ bigFrame' = FALSE
    /\ UNCHANGED <<envVars, planVars, fileAtStart, procVars, ledgerVars, srcVars, scanVars, si,
                   loopVars, fetchVars, subVars, events, logVars>>

\* the search request is answered with an error: it is thrown up to main,
\* which exits with status 1
SG_SearchPageError ==
    /\ pc = "search"
    /\ \E error \in {LimitError} \cup OtherErrors :
        /\ lastError' = error
    /\ frameLog' = Append(frameLog, LogEntry(page, "error", <<>>))
    /\ pc' = "idle"
    /\ inflight' = {}
    /\ exitCode' = ExitFailure
    /\ bigFrame' = FALSE
    /\ UNCHANGED <<envVars, planVars, diskVars, procVars, ledgerVars, srcVars, scanVars, si,
                   loopVars, fetchVars, subVars, events, servedMonths>>

NextScanGithub ==
    \/ SG_StartProcess
    \/ SG_SearchPageOk
    \/ SG_PageDelayDone
    \/ SG_SearchPageError

SpecScanGithub == Init /\ [][NextScanGithub]_vars

(***************************************************************************)
(* The heuristic filter on its own: isLikelyIoBrokerAdapter of             *)
(* scripts/scanGithub.js, part_001 and part_002, applied to one record.    *)
(***************************************************************************)
P2_isLikelyIoBrokerAdapter(repo) ==
    LET name == toLowerCase(repo.name)
        description == toLowerCase(DescriptionOrEmpty(repo.description))
        topics == TopicsOrEmpty(repo.topics)
        hasIoBrokerTopic == \E i \in 1..Len(topics) : includes(topics[i], Iobroker)
        hasAdapterTopic == \E i \in 1..Len(topics) : includes(topics[i], Adapter)
    IN  \/ startsWith(name, Iobroker)
        \/ /\ includes(description, Iobroker)
           /\ (includes(description, Adapter) \/ includes(description, Integration))
        \/ hasIoBrokerTopic /\ hasAdapterTopic

\* names, descriptions and topics of the records the filter is applied to
FilterNames ==
    {Str_ioBroker_test, Str_myiobroker_foo, Str_test, <<"I", "O", "B", "R", "O", "K", "E", "R">>}

FilterDescriptions ==
    {NullDescription,
     Description(<<>>),
     Description(<<"A", "n", " ", "I", "O", "B", "R", "O", "K", "E", "R", " ", "A", "d", "a", "p", "t", "e", "r">>),
     Description(<<"i", "o", "b", "r", "o", "k", "e", "r", " ", "i", "n", "t", "e", "g", "r", "a", "t", "i", "o", "n">>),
     Description(<<"a", "n", " ", "a", "d", "a", "p", "t", "e", "r">>),
     Description(<<"f", "o", "r", " ", "i", "o", "b", "r", "o", "k", "e", "r">>)}

FilterTopics ==
    {NoTopics,
     Topics(<<>>),
     Topics(<<<<"i", "o", "b", "r", "o", "k", "e", "r">>, <<"a", "d", "a", "p", "t", "e", "r">>>>),
     Topics(<<<<"i", "o", "b", "r", "o", "k", "e", "r", "-", "a", "d", "a", "p", "t", "e", "r">>>>),
     Topics(<<<<"i", "o", "b", "r", "o", "k", "e", "r">>>>),
     Topics(<<<<"I", "O", "B", "R", "O", "K", "E", "R">>, <<"a", "d", "a", "p", "t", "e", "r">>>>)}

FilterRecords ==
    {[name |-> n, owner |-> Str_o, full_name |-> FullName(Str_o, n), fork |-> FALSE,
      archived |-> FALSE, description |-> d, topics |-> t] :
        n \in FilterNames, d \in FilterDescriptions, t \in FilterTopics}

\* one record handed to the filter: strategyResults holds the record itself
InitFilter ==
    /\ currentYear = MaxYear
    /\ tzOffset = 0
    /\ world = AnyWorld
    /\ file = NoFile
    /\ pc = "filter"
    /\ strategyResults \in {<<r>> : r \in FilterRecords}
    /\ ri = 1
    /\ monthStrategies = <<>>
    /\ fileAtStart = NoFile
    /\ run = 0
    /\ exitCode = ExitNone
    /\ cleanup = FALSE
    /\ existingRepositories = EmptyLedger
    /\ foundRepositories = <<>>
    /\ sourcesLatest = NoDoc
    /\ sourcesStable = NoDoc
    /\ inflight = {}
    /\ existingRepoKeys = {}
    /\ newRepositoriesFound = 0
    /\ updatedRepositories = 0
    /\ searchStrategies = <<>>
    /\ si = 0
    /\ currentRepo = NoRepo
    /\ strategy = NoStrategy
    /\ repositories = <<>>
    /\ page = 0
    /\ hasNextPage = FALSE
    /\ yearStrategy = NoStrategy
    /\ yearRepositories = <<>>
    /\ month = 0
    /\ allRepositories = <<>>
    /\ events = 0
    /\ bigFrame = FALSE
    /\ frameLog = <<>>
    /\ servedMonths = <<>>
    /\ lastError = NoError
    /\ passedFilter = {}
    /\ passCount = 0

\* if (this.isLikelyIoBrokerAdapter(repo)) of one version: the record has
\* passed or not
FilterRecord(version, passes) ==
    /\ pc = "filter"
    /\ pc' = version
    /\ passedFilter' = IF passes THEN {strategyResults[ri].full_name} ELSE {}
    /\ passCount' = IF passes THEN 1 ELSE 0
    /\ UNCHANGED <<envVars, diskVars, procVars, exitCode, existingRepositories, foundRepositories,
                   newRepositoriesFound, updatedRepositories, srcVars, inflight, scanVars, si,
                   loopVars, fetchVars, subVars, budgetVars, logVars, planVars>>

SG_FilterRecord == FilterRecord("scanGithub.js", SG_isLikelyIoBrokerAdapter(strategyResults[ri]))

P1_FilterRecord == FilterRecord("part_001", P1_isLikelyIoBrokerAdapter(strategyResults[ri]))

P2_FilterRecord == FilterRecord("part_002", P2_isLikelyIoBrokerAdapter(strategyResults[ri]))

NextFilter ==
    \/ SG_FilterRecord
    \/ P1_FilterRecord
    \/ P2_FilterRecord

SpecFilter == InitFilter /\ [][NextFilter]_vars

(***************************************************************************)
(* Properties.                                                             *)
(***************************************************************************)
\* the entries the running process loaded
PriorRepositories == loadExistingRepositories(fileAtStart).repositories

\* the entries of the file on disk
SavedRepositories == file.doc.repositories

\* main() of the last process resolved: the scan completed and saved
ScanCompleted == run > 0 /\ pc = "idle" /\ exitCode = ExitOk

\* searchWithStrategy has returned to the for loop of the scan
ReturnedToScan == pc \in {"probe", "repoGet", "strategyDelay"}

\* the year strategy the scan handed to searchWithStrategy was saturated:
\* it was subdivided, or its pagination collected exactly resultLimit records
SaturatedYear ==
    \/ yearStrategy # NoStrategy
    \/ IsYearStrategy(strategy) /\ Len(repositories) = resultLimit

\* the step is the answer of the limit error to a page request
LimitErrorStep == pc = "search" /\ lastError' = LimitError

\* C1: for every covered creation year and each of the four (fork,
\* archived) combinations, exactly one of the year strategies of
\* getSearchStrategies matches a repository of that year with these flags,
\* under some reading of the fork qualifier.
C1_ExactlyOneYearStrategy ==
    pc \in {"planned", "months"} =>
        \E reading \in ForkReadings :
            \A year \in startYear..currentYear, fork \in BOOLEAN, archived \in BOOLEAN :
                \A date \in DatesOf(year) :
                    Cardinality({i \in 1..Len(searchStrategies) :
                        StrategyMatches(searchStrategies[i], fork, archived, date, reading)}) = 1

\* C2: the year range is Y-01-01..Y-12-31, month m of the twelve monthly
\* strategies starts on the 1st and ends on the calendar last day of the
\* month, and every date of the year falls in exactly one monthly range.
C2_MonthsPartitionYear ==
    Len(monthStrategies) = 12 =>
        LET y == yearStrategy.year
        IN  /\ yearStrategy.query.createdFrom = <<y, 1, 1>>
            /\ yearStrategy.query.createdTo = <<y, 12, 31>>
            /\ \A m \in 1..12 :
                /\ monthStrategies[m].query.createdFrom = <<y, m, 1>>
                /\ monthStrategies[m].query.createdTo = <<y, m, DaysInMonth(y, m)>>
            /\ \A date \in DatesOf(y) :
                Cardinality({m \in 1..12 : CreatedMatches(monthStrategies[m].query, date)}) = 1

\* C3: when searchWithStrategy returns for a saturated year strategy, the
\* list it returns is exactly the records served to the twelve monthly
\* strategies, in order: no record of the yearly pages is in it.
C3_SaturatedYearReturnsMonths ==
    (ReturnedToScan /\ SaturatedYear) => strategyResults = servedMonths

\* C4 (as stated): a limit error on a page request of any strategy is
\* caught and starts the subdivision of that strategy.
C4_LimitErrorAlwaysSubdivides ==
    [][LimitErrorStep =>
        /\ exitCode' = ExitNone
        /\ pc' = "search"
        /\ yearStrategy' = strategy
        /\ month' = 1]_vars

\* C4 (amended): a limit error on a page request is caught, never thrown;
\* on a year strategy it starts the subdivision into months, on a monthly
\* strategy the pagination stops and the records collected so far are
\* returned to searchYearByMonths, with no further subdivision.
C4_LimitErrorCaught ==
    [][LimitErrorStep =>
        /\ exitCode' = ExitNone
        /\ pc' # "idle"
        /\ ~strategy.isMonthly =>
            /\ pc' = "search"
            /\ yearStrategy' = strategy
            /\ month' = 1
            /\ page' = 1
            /\ strategy' = MonthStrategy(strategy, 1, tzOffset)
            /\ allRepositories' = <<>>
        /\ strategy.isMonthly =>
            /\ pc' = "monthDelay"
            /\ allRepositories' = allRepositories \o repositories
            /\ yearStrategy' = yearStrategy
            /\ month' = month]_vars

\* a monthly strategy was answered the limit error and has returned
C4_MonthlyLimitErrorReturned ==
    /\ pc = "monthDelay"
    /\ lastError = LimitError
    /\ strategy.isMonthly
    /\ yearStrategy # NoStrategy

\* C5: an error of a page request other than the limit error ends the
\* process with a non-zero exit status, and the file on disk is as the
\* process found it.
C5_OtherErrorsAreFatal ==
    lastError \in OtherErrors =>
        /\ pc = "idle"
        /\ exitCode = ExitFailure
        /\ file = fileAtStart

\* such an error ended a process that had loaded a file and had changed
\* the entries in memory
C5_FatalAfterChanges ==
    /\ lastError \in OtherErrors
    /\ fileAtStart.exists
    /\ existingRepositories.repositories # fileAtStart.doc.repositories
    /\ DOMAIN fileAtStart.doc.repositories # {}

\* C6: the pages of one query are requested in the order 1, 2, 3, ..., no
\* page is requested after a short page or after an error, and no page
\* beyond page maxPages is requested.
C6_PagesOneToTen ==
    /\ \A i \in 1..Len(frameLog) : frameLog[i].page = i /\ frameLog[i].page <= maxPages
    /\ \A i \in 1..(Len(frameLog) - 1) :
        frameLog[i].outcome = "ok" /\ frameLog[i].count = perPage
    /\ pc = "search" => (page = Len(frameLog) + 1 /\ page <= maxPages)

\* C7: after a completed scan without cleanup every key the process loaded
\* is in the saved ledger, valid exactly when a record with that full name
\* passed the filter in this scan.
C7_RetainedAndFlagged ==
    (ScanCompleted /\ ~cleanup) =>
        \A k \in DOMAIN PriorRepositories :
            /\ k \in DOMAIN SavedRepositories
            /\ (SavedRepositories[k].valid = TRUE) <=> (k \in passedFilter)

\* a scan without cleanup found one loaded entry again and another not
C7_OneFoundOneMissed ==
    /\ ScanCompleted
    /\ ~cleanup
    /\ \E k1, k2 \in DOMAIN PriorRepositories :
        /\ k1 \in passedFilter
        /\ k2 \notin passedFilter
        /\ SavedRepositories[k1].valid = TRUE
        /\ SavedRepositories[k2].valid = FALSE

C9_CleanupKeepsValidOnly ==
    [][(file' # file /\ cleanup) =>
        LET before == existingRepositories.repositories
            kept == {k \in DOMAIN before : before[k].valid = TRUE}
        IN  /\ DOMAIN file'.doc.repositories = kept
            /\ \A k \in kept : file'.doc.repositories[k] = before[k]
            /\ kept = passedFilter
            /\ file'.doc.totalRepositories = Cardinality(kept)]_vars

\* a ledger with one entry, a scan with cleanup and no match: no entry left
C9_OneEntryCleanedAway ==
    /\ ScanCompleted
    /\ cleanup
    /\ Cardinality(DOMAIN PriorRepositories) = 1
    /\ passedFilter = {}
    /\ DOMAIN SavedRepositories = {}
    /\ file.doc.totalRepositories = 0

\* C10: after a completed scan that started from an empty ledger, the keys
\* of the saved ledger are the full names that passed the filter, every
\* entry is valid, and totalRepositories is the number of entries.
C10_FromEmptyLedger ==
    (ScanCompleted /\ DOMAIN PriorRepositories = {}) =>
        /\ DOMAIN SavedRepositories = passedFilter
        /\ \A k \in DOMAIN SavedRepositories : SavedRepositories[k].valid = TRUE
        /\ file.doc.totalRepositories = Cardinality(DOMAIN SavedRepositories)

\* from an empty ledger, one matching record: one entry, totalRepositories 1
C10_OneMatchOneEntry ==
    /\ ScanCompleted
    /\ DOMAIN PriorRepositories = {}
    /\ passedFilter = {FullName(Str_o, Str_ioBroker_test)}
    /\ DOMAIN SavedRepositories = {FullName(Str_o, Str_ioBroker_test)}
    /\ file.doc.totalRepositories = 1

(***************************************************************************)
(* Two runs in one world.                                                  *)
(***************************************************************************)
\* a run after the first completed, on the file the run before it wrote
RerunCompleted ==
    /\ world.fixed
    /\ run >= 2
    /\ ScanCompleted
    /\ fileAtStart.exists
    /\ fileAtStart.complete
    /\ fileAtStart.doc.lastUpdated = run - 1

\* two repository maps hold the same entries, lastScanned set aside
SameEntries(a, b) ==
    /\ DOMAIN a = DOMAIN b
    /\ \A k \in DOMAIN a :
        [a[k] EXCEPT !.lastScanned = NoTime] = [b[k] EXCEPT !.lastScanned = NoTime]

\* C11: a second scan against unchanged platform data writes a ledger file
\* identical to the one the first scan wrote in every field, scanSummary
\* included, but the timestamps lastUpdated and lastScanned
C11_RerunWritesSameLedger ==
    RerunCompleted =>
        /\ SameEntries(file.doc.repositories, fileAtStart.doc.repositories)
        /\ file.doc.totalRepositories = fileAtStart.doc.totalRepositories
        /\ file.doc.scanSummary = fileAtStart.doc.scanSummary

\* C11, amended: the two files agree in every field but lastUpdated,
\* lastScanned and scanSummary.newRepositoriesFound, the count of the
\* repositories that were new to the run
C11_RerunSameButNewCount ==
    RerunCompleted =>
        /\ SameEntries(file.doc.repositories, fileAtStart.doc.repositories)
        /\ file.doc.totalRepositories = fileAtStart.doc.totalRepositories
        /\ [file.doc.scanSummary EXCEPT !.newRepositoriesFound = 0]
               = [fileAtStart.doc.scanSummary EXCEPT !.newRepositoriesFound = 0]

\* a rerun refreshed an entry the first run had entered as new, and kept
\* one neither run found
C11_RerunRefreshedAndKept ==
    /\ RerunCompleted
    /\ fileAtStart.doc.scanSummary.newRepositoriesFound > 0
    /\ \E k \in DOMAIN SavedRepositories : SavedRepositories[k].lastScanned = run
    /\ \E k \in DOMAIN SavedRepositories : ~SavedRepositories[k].valid

(***************************************************************************)
(* The match filter.                                                       *)
(***************************************************************************)
\* the name, lower-cased character by character, starts with "iobroker."
\* and has a further character
StrictName(n) ==
    /\ Len(n) > 9
    /\ \A i \in 1..9 : LowerOf(n[i]) = <<"i", "o", "b", "r", "o", "k", "e", "r", ".">>[i]

\* C12: matchesIoBrokerPattern is true exactly of the names that, lower-
\* cased, start with "iobroker." and go on ("iobroker" and "iobroker." do
\* not match, "iobroker.hue" and "IOBROKER.Hue" do, "myiobroker.foo" does
\* not), and a record whose name fails the check is turned down without a
\* request: no probe or lookup is ever issued for it, and it is never
\* entered in the ledger
C12_StrictNameCheck ==
    /\ ~matchesIoBrokerPattern(<<"i", "o", "b", "r", "o", "k", "e", "r">>)
    /\ ~matchesIoBrokerPattern(<<"i", "o", "b", "r", "o", "k", "e", "r", ".">>)
    /\ matchesIoBrokerPattern(<<"i", "o", "b", "r", "o", "k", "e", "r", ".", "h", "u", "e">>)
    /\ matchesIoBrokerPattern(<<"I", "O", "B", "R", "O", "K", "E", "R", ".", "H", "u", "e">>)
    /\ ~matchesIoBrokerPattern(<<"m", "y", "i", "o", "b", "r", "o", "k", "e", "r", ".", "f", "o", "o">>)
    /\ \A id \in RecordIds :
        matchesIoBrokerPattern(RawRecord(id).name) <=> StrictName(RawRecord(id).name)
    /\ pc \in {"probe", "repoGet"} => StrictName(RawRecord(strategyResults[ri]).name)
    /\ inflight \cap {"repos.getContent", "repos.get"} # {}
           => StrictName(RawRecord(strategyResults[ri]).name)
    /\ \A k \in DOMAIN existingRepositories.repositories :
        StrictName(existingRepositories.repositories[k].name)

\* the records of a strategy were gone through: one of them fails the
\* check, the two others were entered
C12_ForeignNamePassedOver ==
    /\ pc = "strategyDelay"
    /\ strategyResults = <<"rf", "r2", "r1">>
    /\ ~StrictName(RawRecord("rf").name)
    /\ Cardinality(DOMAIN existingRepositories.repositories) = 2
    /\ RawRecord("rf").full_name \notin DOMAIN existingRepositories.repositories

\* C13: no manifest probe is issued for a record whose ledger entry the
\* prior scan left with valid = true (its name passing the strict check)
C13_ValidEntrySkipsProbe ==
    pc = "probe" =>
        LET name == RawRecord(strategyResults[ri]).full_name
        IN  ~(/\ fileAtStart.exists
              /\ fileAtStart.complete
              /\ name \in DOMAIN fileAtStart.doc.repositories
              /\ fileAtStart.doc.repositories[name].valid = TRUE)

C15_DryRunWritesNothing ==
    (world.dryRun /\ ScanCompleted) => file = fileAtStart

\* C16: the ledger file on disk is at every instant a complete document,
\* the previous one or the new one, also when the save does not go through
C16_FileAlwaysComplete ==
    file.exists => file.complete

\* C17: at most one network request is in flight at any time
C17_OneRequestInFlight ==
    Cardinality(inflight) <= 1

\* C18: no two search requests are issued back to back: the step that
\* answers a search request, with a page or with the limit error, never
\* issues the next search request, a delay comes first
C18_DelayBetweenSearches ==
    [][pc = "search" => pc' # "search"]_vars

(***************************************************************************)
(* The fork chain.                                                         *)
(***************************************************************************)
\* C19: getRootRepository ends after finitely many repository lookups,
\* whatever parent data the lookups return: once a lookup is awaited, the
\* walk is over at some later time
C19_RootWalkEnds ==
    (pc = "repoGet") ~> (pc # "repoGet")

\* the first repository up the parent links from `name` that is no fork
RECURSIVE UltimateAncestor(_, _, _)
UltimateAncestor(parentOf, name, steps) ==
    IF steps = 0 \/ parentOf[name] = NullName
    THEN name
    ELSE UltimateAncestor(parentOf, parentOf[name], steps - 1)

\* C20: when the parent summaries of the platform carry the fork flag and
\* no nested parent field, the base entered for a record is its own full
\* name when it is no fork, and the full name of its ultimate non-fork
\* ancestor when it is one
C20_BaseIsUltimateAncestor ==
    (world.fixed /\ ~world.network.fails /\ ~world.network.nested) =>
        \A k \in DOMAIN existingRepositories.repositories :
            LET entry == existingRepositories.repositories[k]
                links == world.network.parentOf
            IN  entry.lastScanned = run =>
                    entry.base = IF entry.isForked
                                 THEN UltimateAncestor(links, entry.full_name, Cardinality(DOMAIN links))
                                 ELSE entry.full_name

(***************************************************************************)
(* The order of the strategies.                                            *)
(***************************************************************************)
\* the year strategy the scan has handed to searchWithStrategy
StrategyOfScan == IF yearStrategy # NoStrategy THEN yearStrategy ELSE strategy

\* C21: the list of strategies the scan works on is finite, its years never
\* rise along the list, every year from the current year down to startYear
\* is in it, each pair of a year and a configuration is in it exactly once,
\* and the scan searches the strategies one after the other in the order of
\* the list.
C21_YearsDescendingInOrder ==
    /\ [](pc \in {"search", "pageDelay", "monthDelay", "probe", "repoGet", "strategyDelay"} =>
            LET list == searchStrategies
            IN  /\ Len(list) = (currentYear - startYear + 1) * Len(searchConfigurations)
                /\ \A i, j \in 1..Len(list) : i < j => list[i].year >= list[j].year
                /\ list[1].year = currentYear
                /\ {list[i].year : i \in 1..Len(list)} = startYear..currentYear
                /\ \A year \in startYear..currentYear, c \in 1..Len(searchConfigurations) :
                      Cardinality({i \in 1..Len(list) :
                          /\ list[i].year = year
                          /\ list[i].forkQualifier = searchConfigurations[c].forkQualifier
                          /\ list[i].archivedState = searchConfigurations[c].archivedQualifier}) = 1
                /\ si \in 1..Len(list)
                /\ pc \in {"search", "pageDelay", "monthDelay"} => StrategyOfScan = list[si])
    /\ [][si' # si => (si' = si + 1 \/ (pc = "idle" /\ si' = 0) \/ (si = 0 /\ si' = 1))]_vars

\* the scan of a later year has reached the last strategy, of the floor year
C21_LastStrategyOfFloorYear ==
    /\ pc = "search"
    /\ currentYear > startYear
    /\ si = Len(searchStrategies)
    /\ si = (currentYear - startYear + 1) * Len(searchConfigurations)
    /\ strategy.year = startYear

\* the floor year the README gives for the year-by-year search
readmeStartYear == 1990

\* C22: a repository created in any year from readmeStartYear to the current
\* year is matched, by its creation date, by the query of some year strategy
\* of getSearchStrategies.
C22_CoversYearsFrom1990 ==
    pc \in {"planned", "months"} =>
        \A year \in readmeStartYear..currentYear :
            \A date \in DatesOf(year) :
                \E i \in 1..Len(searchStrategies) : CreatedMatches(searchStrategies[i].query, date)

(***************************************************************************)
(* The load of the ledger file.                                            *)
(***************************************************************************)
\* C23: whatever the state of the file, the ledger the constructor loaded
\* has a repositories mapping, and the scan that follows gets past its
\* first pass over that mapping: it does not end before its first search.
C23_LoadedLedgerUsable ==
    run > 0 =>
        /\ "repositories" \in DOMAIN existingRepositories
        /\ (pc = "idle" /\ exitCode = ExitFailure) => si > 0

(***************************************************************************)
(* Failures of the auxiliary lookups.                                      *)
(***************************************************************************)
\* the entries written by the running process
EntriesOfRun ==
    {k \in DOMAIN existingRepositories.repositories :
        existingRepositories.repositories[k].lastScanned = run}

\* C24: a manifest document that fails to load is taken as empty and is not
\* requested again in the run, and every entry of the run gets inLatest
\* (inStable) = false; when the repository lookups fail, the base of a fork
\* is null; in both cases every record that passed the filter is entered
\* with valid = true, and the process ends in failure only by an error of
\* the search service or at the save.
C24_AuxiliaryFailuresAreSoft ==
    (run > 0 /\ pc # "sources") =>
        LET repos == existingRepositories.repositories
        IN  /\ ~world.sources.latest =>
                /\ sourcesLatest.set /\ DOMAIN sourcesLatest.content = {}
                /\ \A k \in EntriesOfRun : repos[k].inLatest = FALSE
            /\ ~world.sources.stable =>
                /\ sourcesStable.set /\ DOMAIN sourcesStable.content = {}
                /\ \A k \in EntriesOfRun : repos[k].inStable = FALSE
            /\ inflight \cap {"sources-dist.json", "sources-dist-stable.json"} = {}
            /\ world.network.fails =>
                \A k \in EntriesOfRun : repos[k].isForked => repos[k].base = NullName
            /\ \A k \in passedFilter :
                \/ pc = "repoGet" /\ k = RawRecord(strategyResults[ri]).full_name
                \/ k \in EntriesOfRun /\ repos[k].valid = TRUE
            /\ (pc = "idle" /\ exitCode = ExitFailure) =>
                (lastError \in OtherErrors \/ si = Len(searchStrategies))

\* both manifest documents and the lookups failed, and the scan completed
\* with the fork entered without a base and the other record not in latest
C24_CompletedOnFailures ==
    /\ ScanCompleted
    /\ ~world.sources.latest
    /\ ~world.sources.stable
    /\ world.network.fails
    /\ \E k1, k2 \in DOMAIN SavedRepositories :
        /\ SavedRepositories[k1].isForked
        /\ SavedRepositories[k1].base = NullName
        /\ SavedRepositories[k1].valid = TRUE
        /\ SavedRepositories[k1].lastScanned = run
        /\ ~SavedRepositories[k2].isForked
        /\ SavedRepositories[k2].inLatest = FALSE
        /\ SavedRepositories[k2].lastScanned = run

(***************************************************************************)
(* The heuristic filter.                                                   *)
(***************************************************************************)
\* the string `text`, lower-cased, holds `word` from some position on
HoldsWord(text, word) ==
    \E k \in 1..Len(text) :
        /\ k + Len(word) - 1 <= Len(text)
        /\ \A j \in 1..Len(word) : LowerOf(text[k + j - 1]) = word[j]

\* C25: in each of the three heuristic versions a record passes the filter
\* exactly when its lower-cased name starts with iobroker, or its
\* lower-cased description holds iobroker and one of adapter and
\* integration, or its topics hold a topic that includes iobroker and a
\* topic that includes adapter; a record with a null description and no
\* topics member is decided by its name alone.
C25_HeuristicFilter ==
    pc \in {"scanGithub.js", "part_001", "part_002"} =>
        LET repo == strategyResults[ri]
            byName == \A j \in 1..Len(Iobroker) :
                          j <= Len(repo.name) /\ LowerOf(repo.name[j]) = Iobroker[j]
            byDescription ==
                /\ ~repo.description.isNull
                /\ HoldsWord(repo.description.text, Iobroker)
                /\ (HoldsWord(repo.description.text, Adapter)
                        \/ HoldsWord(repo.description.text, Integration))
            byTopics ==
                /\ repo.topics.present
                /\ \E i, j \in 1..Len(repo.topics.list) :
                      /\ \E k \in 0..Len(repo.topics.list[i]) :
                            /\ k + Len(Iobroker) <= Len(repo.topics.list[i])
                            /\ SubSeq(repo.topics.list[i], k + 1, k + Len(Iobroker)) = Iobroker
                      /\ \E k \in 0..Len(repo.topics.list[j]) :
                            /\ k + Len(Adapter) <= Len(repo.topics.list[j])
                            /\ SubSeq(repo.topics.list[j], k + 1, k + Len(Adapter)) = Adapter
        IN  /\ (passedFilter # {}) <=> (byName \/ byDescription \/ byTopics)
            /\ (repo.description.isNull /\ ~repo.topics.present) =>
                    ((passedFilter # {}) <=> byName)

\* a record whose name does not start with iobroker and that has no topics
\* member passed by its description, written in capitals
C25_PassedByDescription ==
    /\ pc = "scanGithub.js"
    /\ strategyResults[ri].name = Str_test
    /\ strategyResults[ri].description = Description(<<"A", "n", " ", "I", "O", "B", "R", "O", "K", "E", "R", " ", "A", "d", "a", "p", "t", "e", "r">>)
    /\ ~strategyResults[ri].topics.present
    /\ passedFilter = {FullName(Str_o, Str_test)}

(***************************************************************************)
(* The keys and the entries of the ledger.                                 *)
(***************************************************************************)
\* the full names that passed the filter and have been entered: the record
\* whose base is being looked up is entered when the lookup is over
EnteredNames ==
    IF pc = "repoGet"
    THEN passedFilter \ {RawRecord(strategyResults[ri]).full_name}
    ELSE passedFilter

\* C26: every entry of the ledger is stored under its own full name; a
\* record that passed the filter, however often it was returned in the
\* scan, has exactly one entry, which holds the fields of the record and
\* nothing else, valid = true and the time of this scan; the ledger holds
\* no key besides the loaded ones and the full names that passed.
C26_OneEntryPerFullName ==
    run > 0 =>
        LET repos == existingRepositories.repositories
        IN  /\ \A k \in DOMAIN repos : repos[k].full_name = k
            /\ DOMAIN repos \subseteq (DOMAIN PriorRepositories \cup passedFilter)
            /\ \A k \in EnteredNames :
                /\ k \in DOMAIN repos
                /\ Cardinality({x \in DOMAIN repos : repos[x].full_name = k}) = 1
                /\ repos[k].valid = TRUE
                /\ repos[k].lastScanned = run
                /\ DOMAIN repos[k] = {"name", "full_name", "isForked", "isArchived", "base",
                                      "inLatest", "inStable", "valid", "lastScanned"}
                /\ \E id \in RecordIds :
                    /\ RawRecord(id).full_name = k
                    /\ repos[k].name = RawRecord(id).name
                    /\ repos[k].isForked = RawRecord(id).fork
                    /\ repos[k].isArchived = RawRecord(id).archived

\* a record returned by two strategies of one scan, and an entry loaded
\* from the file and found again: one entry each, both of this scan
C26_ReturnedTwiceEnteredOnce ==
    /\ ScanCompleted
    /\ ~cleanup
    /\ fileAtStart = StaleFile
    /\ world.results[1].items = <<"r1">>
    /\ world.results[2].items = <<"r1">>
    /\ newRepositoriesFound = 1
    /\ updatedRepositories = 2
    /\ Cardinality(DOMAIN SavedRepositories) = 2
    /\ \A k \in DOMAIN SavedRepositories : SavedRepositories[k].lastScanned = run

(***************************************************************************)
(* The end of the subdivision and of the scan.                             *)
(***************************************************************************)
\* C27: a monthly strategy is never subdivided (the strategy subdivided is
\* a year strategy, and a limit error on a monthly strategy returns to the
\* loop over the months), no frame requests a page beyond maxPages and no
\* subdivision a month beyond 12; and a scan whose requests are all
\* answered reaches the save.
C27_BoundedFetchReachesSave ==
    /\ [](/\ yearStrategy # NoStrategy => IsYearStrategy(yearStrategy)
          /\ (pc \in {"search", "pageDelay", "monthDelay"} /\ strategy.isMonthly) =>
                (yearStrategy # NoStrategy /\ month \in 1..12 /\ strategy.month = month)
          /\ pc = "search" => page \in 1..maxPages)
    /\ [][(pc = "search" /\ strategy.isMonthly) => yearStrategy' \in {yearStrategy, NoStrategy}]_vars
    /\ (pc = "sources") ~> (pc = "idle" /\ exitCode = ExitOk)

\* C28: every monthly strategy of a subdivided year strategy has the base
\* query, the fork qualifier, the archive qualifier and the additional
\* qualifiers of that year strategy, and the created range of its own
\* month; the months are searched one after the other from month 1 to 12,
\* each by a frame of searchWithStrategy that starts at page 1 with no
\* records.
C28_MonthsKeepQualifiers ==
    /\ []((pc \in {"search", "pageDelay", "monthDelay"} /\ strategy.isMonthly) =>
            /\ strategy.query.base = yearStrategy.query.base
            /\ strategy.query.fork = yearStrategy.query.fork
            /\ strategy.query.archived = yearStrategy.query.archived
            /\ strategy.query.extra = yearStrategy.query.extra
            /\ strategy.forkQualifier = yearStrategy.forkQualifier
            /\ strategy.archivedState = yearStrategy.archivedState
            /\ strategy.year = yearStrategy.year
            /\ strategy.month = month
            /\ month \in 1..12
            /\ strategy.query.createdFrom = <<yearStrategy.year, month, 1>>
            /\ \A i \in 1..Len(frameLog) : frameLog[i].page = i)
    /\ [][(strategy' # strategy /\ strategy'.isMonthly) =>
            /\ pc' = "search"
            /\ page' = 1
            /\ repositories' = <<>>
            /\ hasNextPage' = TRUE
            /\ month' = (IF strategy.isMonthly THEN month + 1 ELSE 1)
            /\ yearStrategy' = (IF strategy.isMonthly THEN yearStrategy ELSE strategy)]_vars

\* the twelfth month of a subdivided non-fork year strategy is at its
\* second page
C28_TwelfthMonthSecondPage ==
    /\ pc = "search"
    /\ strategy.isMonthly
    /\ month = 12
    /\ page = 2
    /\ yearStrategy.forkQualifier = "fork:false"
    /\ strategy.query.fork = "fork:false"
    /\ frameLog = <<LogEntry(1, "ok", FullPage)>>

(***************************************************************************)
(* The counters of the saved document.                                     *)
(***************************************************************************)
\* C29: in every ledger file a save has written, with or without cleanup,
\* totalRepositories is the number of keys of the repositories mapping of
\* that file.
C29_TotalIsNumberOfKeys ==
    (file.exists /\ file.complete) =>
        file.doc.totalRepositories = Cardinality(DOMAIN file.doc.repositories)

\* a save with cleanup dropped the one entry the process had loaded and
\* wrote the one entry found new
C29_SavedAfterCleanup ==
    /\ ScanCompleted
    /\ file.doc.lastUpdated = run
    /\ cleanup
    /\ Cardinality(DOMAIN PriorRepositories) = 1
    /\ DOMAIN PriorRepositories \cap DOMAIN SavedRepositories = {}
    /\ Cardinality(DOMAIN SavedRepositories) = 1
    /\ file.doc.totalRepositories = 1
    /\ Len(foundRepositories) = 1

\* C30: after a completed scan the newRepositoriesFound of the saved
\* summary is the number of keys that the saved ledger has and the loaded
\* one had not, no loaded key is among the repositories found new, and the
\* counters of new and of updated repositories add up to the number of
\* times a record passed the filter.
C30_NewCountedOnce ==
    (ScanCompleted /\ file.doc.lastUpdated = run) =>
        /\ file.doc.scanSummary.newRepositoriesFound =
               Cardinality(DOMAIN SavedRepositories \ DOMAIN PriorRepositories)
        /\ newRepositoriesFound = Cardinality(DOMAIN SavedRepositories \ DOMAIN PriorRepositories)
        /\ \A i \in 1..Len(foundRepositories) : foundRepositories[i] \notin DOMAIN PriorRepositories
        /\ newRepositoriesFound + updatedRepositories = passCount

\* a scan that loaded one entry and found it again, and found another
\* repository twice: one new, two updates, three passes
C30_OneNewTwoUpdates ==
    /\ ScanCompleted
    /\ file.doc.lastUpdated = run
    /\ Cardinality(DOMAIN PriorRepositories) = 1
    /\ passCount = 3
    /\ newRepositoriesFound = 1
    /\ updatedRepositories = 2
    /\ file.doc.scanSummary.newRepositoriesFound = 1
    /\ Cardinality(DOMAIN SavedRepositories \ DOMAIN PriorRepositories) = 1

====
